---- MODULE Spec2Model ----
(***************************************************************************)
(* A model of the rlox tree-walking interpreter (src/interpreter.rs,       *)
(* src/function.rs, src/environment.rs).                                   *)
(*                                                                         *)
(* The interpreter is a recursive evaluator; every visit_* method of the   *)
(* source is one operator of the same name that maps an interpreter state  *)
(* record to the state after the method returned.  The action Interpret    *)
(* is one iteration of the loop of Interpreter::interpret: it executes one *)
(* top-level statement completely.                                         *)
(***************************************************************************)
EXTENDS Integers, Sequences, FiniteSets, TLC

\* Number of top-level statements handed to Interpreter::interpret.
MaxStmts == 4
\* Number of calls of Interpreter::execute one top-level statement may make.
MaxSteps == 12
\* Number of top-level statements of a program of expression evaluation.
MaxExpressions == 1

(***************************************************************************)
(* Values: Object / Literal.                                               *)
(***************************************************************************)
Number(n) == [t |-> "Number", n |-> n]
String(s) == [t |-> "String", s |-> s]
Bool(b) == [t |-> "Bool", b |-> b]
Null == [t |-> "Null"]
Function_new(stmt, closure) ==
    [t |-> "Function", name |-> stmt.name, params |-> stmt.params,
     body |-> stmt.body, closure |-> closure]
NativeFunction(name) == [t |-> "NativeFunction", name |-> name]

\* Null and Bool(false) are falsy, every other value is truthy.
as_bool(object) ==
    IF object.t = "Null" THEN FALSE
    ELSE IF object.t = "Bool" THEN object.b
    ELSE TRUE

\* The number of a Number; any other value is a runtime type error.
as_number(object) ==
    IF object.t = "Number" THEN [ok |-> TRUE, n |-> object.n] ELSE [ok |-> FALSE]

\* f64 division.  Numbers are modelled by integers: a quotient that is not
\* one (a fraction, an infinity, a NaN) is kept as the pair it came from.
f64_div(l, r) ==
    IF r # 0 /\ l % r = 0 THEN Number(l \div r)
    ELSE [t |-> "Number", quotient |-> <<l, r>>]

(***************************************************************************)
(* Syntax trees: Expr and Stmt.  A token is modelled by its lexeme.        *)
(***************************************************************************)
None == [k |-> "None"]
LiteralExpr(value) == [k |-> "Literal", value |-> value]
VariableExpr(name) == [k |-> "Variable", name |-> name]
AssignExpr(name, value) == [k |-> "Assign", name |-> name, value |-> value]
LogicalExpr(left, operator, right) ==
    [k |-> "Logical", left |-> left, operator |-> operator, right |-> right]
BinaryExpr(left, operator, right) ==
    [k |-> "Binary", left |-> left, operator |-> operator, right |-> right]
UnaryExpr(operator, expr) == [k |-> "Unary", operator |-> operator, expr |-> expr]
GroupingExpr(expr) == [k |-> "Grouping", expr |-> expr]
CallExpr(callee, arguments) ==
    [k |-> "Call", callee |-> callee, paren |-> ")", arguments |-> arguments]

ExpressionStmt(expr) == [k |-> "Expression", expr |-> expr]
PrintStmt(expr) == [k |-> "Print", expr |-> expr]
VarStmt(name, initializer) == [k |-> "Var", name |-> name, initializer |-> initializer]
BlockStmt(statements) == [k |-> "Block", statements |-> statements]
IfStmt(condition, then_branch, else_branch) ==
    [k |-> "If", condition |-> condition, then_branch |-> then_branch,
     else_branch |-> else_branch]
WhileStmt(condition, body) == [k |-> "While", condition |-> condition, body |-> body]
FunctionStmt(name, params, body) ==
    [k |-> "Function", name |-> name, params |-> params, body |-> body]
ReturnStmt(value) == [k |-> "Return", keyword |-> "return", value |-> value]

(***************************************************************************)
(* Environment: a heap of environments, addressed by index (the Rc), 0 is  *)
(* the absent parent.                                                      *)
(***************************************************************************)
NoBindings == [x \in {} |-> Null]
Environment_new(parent) == [variables |-> NoBindings, parent |-> parent]

\* A faulty variant of define: a name that is bound keeps its value, and the
\* new value is bound in the parent environment instead.
define_if_absent(envs_, id, name, v) ==
    IF name \notin DOMAIN envs_[id].variables \/ envs_[id].parent = 0
    THEN [envs_ EXCEPT ![id].variables = (name :> v) @@ @]
    ELSE [envs_ EXCEPT ![envs_[id].parent].variables = (name :> v) @@ @]

define(envs, id, name, value) ==
    [envs EXCEPT ![id].variables = (name :> value) @@ @]

RECURSIVE get(_, _, _)
get(envs, id, name) ==
    IF name \in DOMAIN envs[id].variables
    THEN [ok |-> TRUE, value |-> envs[id].variables[name]]
    ELSE IF envs[id].parent # 0
    THEN get(envs, envs[id].parent, name)
    ELSE [ok |-> FALSE,
          error |-> [token |-> name, message |-> "Undefined variable"]]

RECURSIVE assign(_, _, _, _)
assign(envs, id, name, value) ==
    IF name \in DOMAIN envs[id].variables
    THEN [ok |-> TRUE, envs |-> [envs EXCEPT ![id].variables[name] = value]]
    ELSE IF envs[id].parent # 0
    THEN assign(envs, envs[id].parent, name, value)
    ELSE [ok |-> FALSE, envs |-> envs,
          error |-> [token |-> name, message |-> "Undefined variable"]]

(***************************************************************************)
(* error: RuntimeError::throw reports the error and raises the process-    *)
(* wide flag that error::did_error reads.                                  *)
(***************************************************************************)
throw(s, error) ==
    [s EXCEPT !.errors = Append(@, error), !.had_error = TRUE]

did_error(s) == s.had_error

(***************************************************************************)
(* Results of statement execution: Result<(), ReturnError>.                *)
(***************************************************************************)
Ok == [ok |-> TRUE]
Err(value) == [ok |-> FALSE, value |-> value]

RECURSIVE evaluate(_, _)
RECURSIVE execute(_, _)
RECURSIVE execute_statements(_, _, _)
RECURSIVE evaluate_arguments(_, _, _)
RECURSIVE while_loop(_, _)
RECURSIVE bind_params(_, _, _, _, _)

\* The operators below take the result of a nested evaluate or execute as a
\* parameter: x is [s |-> state after, r |-> Ok or Err] for a statement and
\* [s |-> state after, v |-> value] for an expression.

\* execute_block: `self.execute(statement)?` and the next turn of the loop.
next_statement(statements, i, x) ==
    IF x.r.ok THEN execute_statements(statements, i + 1, x.s) ELSE x

\* execute_block: the loop over the statements.
execute_statements(statements, i, s) ==
    IF i > Len(statements) THEN [s |-> s, r |-> Ok]
    ELSE next_statement(statements, i, execute(statements[i], s))

\* execute_block after the loop: `self.environment = previous; Ok(())` when
\* the loop ran to its end, nothing when the ? left the function.
leave_block(previous, environment, x) ==
    IF x.r.ok
    THEN [s |-> [x.s EXCEPT !.environment = previous,
                            !.blocks = Append(@, [previous |-> previous,
                                                  environment |-> environment,
                                                  after |-> previous,
                                                  exit |-> "ok"])],
          r |-> Ok]
    ELSE [s |-> [x.s EXCEPT !.blocks = Append(@, [previous |-> previous,
                                                  environment |-> environment,
                                                  after |-> x.s.environment,
                                                  exit |-> "return"])],
          r |-> x.r]

execute_block(statements, environment, s) ==
    leave_block(s.environment, environment,
                execute_statements(statements, 1, [s EXCEPT !.environment = environment]))

(***************************************************************************)
(* Callable                                                                *)
(***************************************************************************)
\* A faulty variant of Function::arity: every function reports no parameter.
Function_arity_any(function) == 0

Function_arity(function) == Len(function.params)

\* params.iter().zip(arguments.iter()): pairs up to the shorter length.
bind_params(params, arguments, i, id, envs) ==
    IF i > Len(params) \/ i > Len(arguments) THEN envs
    ELSE bind_params(params, arguments, i + 1, id,
                     define(envs, id, params[i], arguments[i]))

\* Function::call, the match on the result of execute_block.  s is the state
\* the call started in and bound the new environment after the binding.
catch_return(function, s, arguments, bound, x) ==
    [ok |-> TRUE,
     value |-> IF x.r.ok THEN Null ELSE x.r.value,
     s |-> [x.s EXCEPT !.calls = Append(@,
               [closure |-> function.closure, caller |-> s.environment,
                environment |-> Len(s.envs) + 1, existed |-> Len(s.envs),
                params |-> function.params, arguments |-> arguments,
                bound |-> bound, signal |-> x.r,
                value |-> IF x.r.ok THEN Null ELSE x.r.value,
                raised |-> x.s.raised, caught |-> x.s.steps,
                after |-> x.s.environment])]]

\* Function::call from the binding of the parameters on; envs is the heap
\* with the call's environment as its last element.
call_body(function, s, arguments, envs) ==
    catch_return(function, s, arguments, envs[Len(envs)],
                 execute_block(function.body, Len(envs), [s EXCEPT !.envs = envs]))

\* A faulty variant of Function::call (dynamic scoping): the parent of the
\* call's environment is the caller's current environment.
Function_call_dynamic(function, s, arguments) ==
    call_body(function, s, arguments,
              bind_params(function.params, arguments, 1, Len(s.envs) + 1,
                          Append(s.envs, Environment_new(s.environment))))

Function_call(function, s, arguments) ==
    call_body(function, s, arguments,
              bind_params(function.params, arguments, 1, Len(s.envs) + 1,
                          Append(s.envs, Environment_new(function.closure))))

NativeFunction_arity(function) == 0

\* The host procedures: clock yields the host's time, input a line of stdin.
NativeFunction_call(function, s, arguments) ==
    [ok |-> TRUE, value |-> Number(s.now), s |-> s]

(***************************************************************************)
(* ExprVisitor                                                             *)
(***************************************************************************)
visit_literal_expr(literal, s) == [s |-> s, v |-> literal.value]

\* visit_logical_expr after the left operand.
logical_right(logical, left) ==
    IF logical.operator = "or" /\ as_bool(left.v) THEN left
    ELSE IF logical.operator = "and" /\ ~as_bool(left.v) THEN left
    ELSE evaluate(logical.right, left.s)

\* A faulty variant of visit_logical_expr: the right operand is evaluated
\* whatever the left operand is.
visit_logical_expr_eager(logical, s) == evaluate(logical.right, evaluate(logical.left, s).s)

visit_logical_expr(logical, s) == logical_right(logical, evaluate(logical.left, s))

\* visit_unary_expr after the operand.
unary_apply(unary, right) ==
    IF unary.operator = "!" THEN [s |-> right.s, v |-> Bool(~as_bool(right.v))]
    ELSE IF as_number(right.v).ok THEN [s |-> right.s, v |-> Number(0 - as_number(right.v).n)]
    ELSE [s |-> throw(right.s, [token |-> unary.operator,
                                message |-> "Operand must be a number"]),
          v |-> Null]

visit_unary_expr(unary, s) == unary_apply(unary, evaluate(unary.expr, s))

\* visit_binary_expr, the arms of the comparison and arithmetic operators
\* applied to the numbers l and r.
binary_numbers(operator, l, r) ==
    CASE operator = ">" -> Bool(l > r)
      [] operator = ">=" -> Bool(l >= r)
      [] operator = "<" -> Bool(l < r)
      [] operator = "<=" -> Bool(l <= r)
      [] operator = "==" -> Bool(l = r)
      [] operator = "!=" -> Bool(l # r)
      [] operator = "/" -> f64_div(l, r)
      [] operator = "*" -> Number(l * r)
      [] operator = "-" -> Number(l - r)

\* A faulty variant of the arm of Type::Plus: unsupported operand types yield
\* Null without a RuntimeError.
binary_plus_silent(binary, left, right) ==
    IF left.v.t = "Number" /\ right.v.t = "Number"
    THEN [s |-> right.s, v |-> Number(left.v.n + right.v.n)]
    ELSE IF left.v.t = "String" /\ right.v.t = "String"
    THEN [s |-> right.s, v |-> String(left.v.s \o right.v.s)]
    ELSE [s |-> right.s, v |-> Null]

\* visit_binary_expr, the arm of Type::Plus.
binary_plus(binary, left, right) ==
    IF left.v.t = "Number" /\ right.v.t = "Number"
    THEN [s |-> right.s, v |-> Number(left.v.n + right.v.n)]
    ELSE IF left.v.t = "String" /\ right.v.t = "String"
    THEN [s |-> right.s, v |-> String(left.v.s \o right.v.s)]
    ELSE [s |-> throw(right.s, [token |-> binary.operator,
                                message |-> "Tried to add two unsupported types"]),
          v |-> Null]

\* A faulty variant of the match on the operator: == and != compare the two
\* values themselves, of whatever kind.
binary_apply_any_equality(binary, left, right) ==
    IF binary.operator = "+" THEN binary_plus(binary, left, right)
    ELSE IF binary.operator = "==" THEN [s |-> right.s, v |-> Bool(left.v = right.v)]
    ELSE IF binary.operator = "!=" THEN [s |-> right.s, v |-> Bool(left.v # right.v)]
    ELSE IF as_number(left.v).ok /\ as_number(right.v).ok
    THEN [s |-> right.s,
          v |-> binary_numbers(binary.operator, as_number(left.v).n, as_number(right.v).n)]
    ELSE [s |-> throw(right.s, [token |-> binary.operator,
                                message |-> "Operand must be a number"]),
          v |-> Null]

\* visit_binary_expr, the match on the operator.
binary_apply(binary, left, right) ==
    IF binary.operator = "+" THEN binary_plus(binary, left, right)
    ELSE IF as_number(left.v).ok /\ as_number(right.v).ok
    THEN [s |-> right.s,
          v |-> binary_numbers(binary.operator, as_number(left.v).n, as_number(right.v).n)]
    ELSE [s |-> throw(right.s, [token |-> binary.operator,
                                message |-> "Operand must be a number"]),
          v |-> Null]

\* visit_binary_expr after the left operand.
binary_right(binary, left) == binary_apply(binary, left, evaluate(binary.right, left.s))

\* A faulty variant of visit_binary_expr: the right operand is evaluated
\* before the left one.
binary_left(binary, right) ==
    binary_apply(binary, [evaluate(binary.left, right.s) EXCEPT !.s = right.s],
                 [s |-> evaluate(binary.left, right.s).s, v |-> right.v])
visit_binary_expr_right_first(binary, s) == binary_left(binary, evaluate(binary.right, s))

visit_binary_expr(binary, s) == binary_right(binary, evaluate(binary.left, s))

\* visit_call_expr: one argument evaluated and collected.
push_argument(values, x) == [s |-> x.s, v |-> Append(values, x.v)]

\* visit_call_expr: the arguments, evaluated in order.
evaluate_arguments(arguments, i, acc) ==
    IF i > Len(arguments) THEN acc
    ELSE evaluate_arguments(arguments, i + 1,
                            push_argument(acc.v, evaluate(arguments[i], acc.s)))

\* visit_call_expr: `.unwrap_or_else(|mut error| ...)` on the result of call.
unwrap_or_throw(call, x) ==
    IF x.ok THEN [s |-> x.s, v |-> x.value]
    ELSE [s |-> throw(x.s, [x.error EXCEPT !.token = call.paren]), v |-> Null]

\* visit_call_expr: `match callee`.
call_callee(call, function, arguments) ==
    IF function.t = "Function"
    THEN IF Len(arguments.v) # Function_arity(function)
         THEN [s |-> throw(arguments.s,
                           [token |-> call.paren, message |-> "Expected arguments",
                            expected |-> Function_arity(function),
                            got |-> Len(arguments.v)]),
               v |-> Null]
         ELSE unwrap_or_throw(call, Function_call(function, arguments.s, arguments.v))
    ELSE IF function.t = "NativeFunction"
    THEN IF Len(arguments.v) # NativeFunction_arity(function)
         THEN [s |-> throw(arguments.s,
                           [token |-> call.paren, message |-> "Expected arguments",
                            expected |-> NativeFunction_arity(function),
                            got |-> Len(arguments.v)]),
               v |-> Null]
         ELSE unwrap_or_throw(call, NativeFunction_call(function, arguments.s, arguments.v))
    ELSE [s |-> throw(arguments.s,
                      [token |-> call.paren,
                       message |-> "Can only call functions and classes"]),
          v |-> Null]

\* visit_call_expr after the callee.
call_arguments(call, callee) ==
    call_callee(call, callee.v,
                evaluate_arguments(call.arguments, 1, [s |-> callee.s, v |-> <<>>]))

visit_call_expr(call, s) == call_arguments(call, evaluate(call.callee, s))

visit_grouping_expr(grouping, s) == evaluate(grouping.expr, s)

\* A faulty variant of visit_variable_expr: the name is looked up in the
\* current environment alone.
visit_variable_expr_local(variable, s) ==
    IF variable.name \in DOMAIN s.envs[s.environment].variables
    THEN [s |-> s, v |-> s.envs[s.environment].variables[variable.name]]
    ELSE [s |-> throw(s, [token |-> variable.name, message |-> "Undefined variable"]),
          v |-> Null]

visit_variable_expr(variable, s) ==
    LET x == get(s.envs, s.environment, variable.name)
    IN IF x.ok THEN [s |-> s, v |-> x.value]
       ELSE [s |-> throw(s, x.error), v |-> Null]

\* visit_assign_expr after the value.
assign_value(assign_, value) ==
    LET x == assign(value.s.envs, value.s.environment, assign_.name, value.v)
    IN [s |-> IF x.ok THEN [value.s EXCEPT !.envs = x.envs] ELSE throw(value.s, x.error),
        v |-> value.v]

\* A faulty variant of visit_assign_expr: the name is defined in the current
\* environment instead of being assigned.
define_value(assign_, value) ==
    [s |-> [value.s EXCEPT !.envs = define(@, value.s.environment, assign_.name, value.v)],
     v |-> value.v]
visit_assign_expr_defines(assign_, s) == define_value(assign_, evaluate(assign_.value, s))

visit_assign_expr(assign_, s) == assign_value(assign_, evaluate(assign_.value, s))

evaluate(expr, s) ==
    CASE expr.k = "Literal" -> visit_literal_expr(expr, s)
      [] expr.k = "Logical" -> visit_logical_expr(expr, s)
      [] expr.k = "Unary" -> visit_unary_expr(expr, s)
      [] expr.k = "Binary" -> visit_binary_expr(expr, s)
      [] expr.k = "Call" -> visit_call_expr(expr, s)
      [] expr.k = "Grouping" -> visit_grouping_expr(expr, s)
      [] expr.k = "Variable" -> visit_variable_expr(expr, s)
      [] expr.k = "Assign" -> visit_assign_expr(expr, s)

\* `if let Some(expr) = ... { self.evaluate(expr) } else { Null }`
evaluate_optional(expr, s) ==
    IF expr # None THEN evaluate(expr, s) ELSE [s |-> s, v |-> Null]

(***************************************************************************)
(* StmtVisitor                                                             *)
(***************************************************************************)
visit_expression_stmt(stmt, s) == [s |-> evaluate(stmt.expr, s).s, r |-> Ok]

\* A faulty variant of visit_function_stmt: the closure is a copy of the
\* current environment's bindings instead of the environment itself.
visit_function_stmt_snapshot(stmt, s) ==
    [s |-> [s EXCEPT !.envs = define(Append(@, @[s.environment]), s.environment,
                                     stmt.name, Function_new(stmt, Len(s.envs) + 1))],
     r |-> Ok]

visit_function_stmt(stmt, s) ==
    [s |-> [s EXCEPT !.envs = define(@, s.environment,
                                     stmt.name, Function_new(stmt, s.environment))],
     r |-> Ok]

\* visit_if_stmt after the condition.
if_branch(stmt, condition) ==
    IF as_bool(condition.v) THEN execute(stmt.then_branch, condition.s)
    ELSE IF stmt.else_branch # None THEN execute(stmt.else_branch, condition.s)
    ELSE [s |-> condition.s, r |-> Ok]

visit_if_stmt(stmt, s) == if_branch(stmt, evaluate(stmt.condition, s))

\* visit_print_stmt after the value.
print_value(value) ==
    IF did_error(value.s) THEN [s |-> value.s, r |-> Ok]
    ELSE [s |-> [value.s EXCEPT !.output = Append(@, value.v)], r |-> Ok]

visit_print_stmt(stmt, s) == print_value(evaluate(stmt.expr, s))

\* visit_return_stmt after the value: Err(ReturnError { value }).
raise_return(value) ==
    [s |-> [value.s EXCEPT !.raised = value.s.steps], r |-> Err(value.v)]

visit_return_stmt(stmt, s) == raise_return(evaluate_optional(stmt.value, s))

\* visit_var_stmt after the initializer.
define_var(stmt, value) ==
    [s |-> [value.s EXCEPT !.envs = define(@, value.s.environment, stmt.name, value.v)],
     r |-> Ok]

\* A faulty variant of visit_var_stmt: a name already bound in the chain is
\* assigned where it is bound instead of being defined in the current environment.
assign_var(stmt, value) ==
    LET x == assign(value.s.envs, value.s.environment, stmt.name, value.v)
    IN IF x.ok THEN [s |-> [value.s EXCEPT !.envs = x.envs], r |-> Ok]
       ELSE define_var(stmt, value)
visit_var_stmt_assigns(stmt, s) == assign_var(stmt, evaluate_optional(stmt.initializer, s))

visit_var_stmt(stmt, s) == define_var(stmt, evaluate_optional(stmt.initializer, s))

\* visit_while_stmt: `self.execute(&data.body)?` and the next turn of the loop.
while_next(stmt, x) == IF x.r.ok THEN while_loop(stmt, x.s) ELSE x

\* visit_while_stmt after the condition.
while_body(stmt, condition) ==
    IF as_bool(condition.v) THEN while_next(stmt, execute(stmt.body, condition.s))
    ELSE [s |-> condition.s, r |-> Ok]

\* visit_while_stmt: the loop.
while_loop(stmt, s) ==
    IF s.stuck THEN [s |-> s, r |-> Ok]
    ELSE while_body(stmt, evaluate(stmt.condition, s))

\* A faulty variant of visit_while_stmt: a Return out of the body ends the
\* loop but is not propagated.
visit_while_stmt_swallows(stmt, s) == [s |-> while_loop(stmt, s).s, r |-> Ok]

\* A faulty variant of visit_while_stmt: the body is executed once at most.
while_once(stmt, condition) ==
    IF as_bool(condition.v) THEN execute(stmt.body, condition.s)
    ELSE [s |-> condition.s, r |-> Ok]
visit_while_stmt_once(stmt, s) == while_once(stmt, evaluate(stmt.condition, s))

visit_while_stmt(stmt, s) == while_loop(stmt, s)

\* A faulty variant of visit_block_stmt: the block's environment has no parent.
visit_block_stmt_orphan(stmt, s) ==
    execute_block(stmt.statements, Len(s.envs) + 1,
                  [s EXCEPT !.envs = Append(@, Environment_new(0))])

visit_block_stmt(stmt, s) ==
    execute_block(stmt.statements, Len(s.envs) + 1,
                  [s EXCEPT !.envs = Append(@, Environment_new(s.environment))])

\* Interpreter::execute: `stmt.accept(self)`.
visit_stmt(stmt, s) ==
    CASE stmt.k = "Expression" -> visit_expression_stmt(stmt, s)
      [] stmt.k = "Function" -> visit_function_stmt(stmt, s)
      [] stmt.k = "If" -> visit_if_stmt(stmt, s)
      [] stmt.k = "Print" -> visit_print_stmt(stmt, s)
      [] stmt.k = "Return" -> visit_return_stmt(stmt, s)
      [] stmt.k = "Var" -> visit_var_stmt(stmt, s)
      [] stmt.k = "While" -> visit_while_stmt(stmt, s)
      [] stmt.k = "Block" -> visit_block_stmt(stmt, s)

\* Interpreter::execute; a statement that would exceed MaxSteps is not run.
execute(stmt, s) ==
    IF s.stuck \/ s.steps >= MaxSteps
    THEN [s |-> [s EXCEPT !.stuck = TRUE], r |-> Ok]
    ELSE visit_stmt(stmt, [s EXCEPT !.steps = @ + 1])

(***************************************************************************)
(* The programs: every top-level statement is drawn from Statements.       *)
(***************************************************************************)
\* fun f() { print a; }
FunF == FunctionStmt("f", <<>>, <<PrintStmt(VariableExpr("a"))>>)
\* fun g(b) { while (b) { if (b) { return b; } print 7; } print 8; }
FunG ==
    FunctionStmt("g", <<"b">>,
        <<WhileStmt(VariableExpr("b"),
              BlockStmt(<<IfStmt(VariableExpr("b"),
                                 BlockStmt(<<ReturnStmt(VariableExpr("b"))>>), None),
                          PrintStmt(LiteralExpr(Number(7)))>>)),
          PrintStmt(LiteralExpr(Number(8)))>>)
\* var a = 1;
VarA == VarStmt("a", LiteralExpr(Number(1)))
\* a = 2;
AssignA == ExpressionStmt(AssignExpr("a", LiteralExpr(Number(2))))
\* print a;
PrintA == PrintStmt(VariableExpr("a"))
\* f();
CallF == ExpressionStmt(CallExpr(VariableExpr("f"), <<>>))
\* { var a = 3; print a; }
ShadowA == BlockStmt(<<VarStmt("a", LiteralExpr(Number(3))), PrintStmt(VariableExpr("a"))>>)
\* { var a = 5; f(); }
CallFInBlock ==
    BlockStmt(<<VarStmt("a", LiteralExpr(Number(5))),
                ExpressionStmt(CallExpr(VariableExpr("f"), <<>>))>>)
\* print g(1);
PrintG == PrintStmt(CallExpr(VariableExpr("g"), <<LiteralExpr(Number(1))>>))
\* { var c = 4; g(c); print c; }
CallGInBlock ==
    BlockStmt(<<VarStmt("c", LiteralExpr(Number(4))),
                ExpressionStmt(CallExpr(VariableExpr("g"), <<VariableExpr("c")>>)),
                PrintStmt(VariableExpr("c"))>>)
\* var c = b;
VarC == VarStmt("c", VariableExpr("b"))
\* return a;
ReturnA == ReturnStmt(VariableExpr("a"))

Statements ==
    {FunF, FunG, VarA, AssignA, PrintA, CallF, ShadowA, CallFInBlock, PrintG,
     CallGInBlock, VarC, ReturnA}

\* The values the host clock may yield.
ClockValues == {5, 6}

(***************************************************************************)
(* The programs of expression evaluation: every top-level statement is     *)
(* drawn from Expressions.                                                 *)
(***************************************************************************)
\* The operands: 6, 2, "a", "b", true, nil and the native function clock.
Operands ==
    {LiteralExpr(Number(6)), LiteralExpr(Number(2)), LiteralExpr(String("a")),
     LiteralExpr(String("b")), LiteralExpr(Bool(TRUE)), LiteralExpr(Null),
     VariableExpr("clock")}

BinaryOperators == {">", ">=", "<", "<=", "==", "!=", "/", "*", "-", "+"}

\* var r = <left> <operator> <right>;
VarBinary(left, operator, right) == VarStmt("r", BinaryExpr(left, operator, right))

\* The left operands of and / or: true, false, nil, 0 and "".
LogicalOperands ==
    {LiteralExpr(Bool(TRUE)), LiteralExpr(Bool(FALSE)), LiteralExpr(Null),
     LiteralExpr(Number(0)), LiteralExpr(String(""))}

\* { var a = 1; var r = <left> <operator> (a = 2); }
LogicalBlock(left, operator) ==
    BlockStmt(<<VarStmt("a", LiteralExpr(Number(1))),
                VarStmt("r", LogicalExpr(left, operator,
                                         AssignExpr("a", LiteralExpr(Number(2)))))>>)

\* fun h(p) { a = p; }
FunH == FunctionStmt("h", <<"p">>, <<ExpressionStmt(AssignExpr("a", VariableExpr("p")))>>)

\* { var a = 0; fun h(p) { a = p; } h(<arguments>); }
CallHBlock(arguments) ==
    BlockStmt(<<VarStmt("a", LiteralExpr(Number(0))), FunH,
                ExpressionStmt(CallExpr(VariableExpr("h"), arguments))>>)

\* The argument lists of the calls of h: (), (7), (7, 8).
ArgumentLists ==
    {<<>>, <<LiteralExpr(Number(7))>>, <<LiteralExpr(Number(7)), LiteralExpr(Number(8))>>}

\* var r = clock(<arguments>);
VarClock(arguments) == VarStmt("r", CallExpr(VariableExpr("clock"), arguments))

\* { var a = 1; var r = (a = 6) - a; }
LeftThenRight ==
    BlockStmt(<<VarStmt("a", LiteralExpr(Number(1))),
                VarStmt("r", BinaryExpr(AssignExpr("a", LiteralExpr(Number(6))), "-",
                                        VariableExpr("a")))>>)
\* fun k(p, q) { a = p - q; }
FunK ==
    FunctionStmt("k", <<"p", "q">>,
        <<ExpressionStmt(AssignExpr("a", BinaryExpr(VariableExpr("p"), "-",
                                                    VariableExpr("q"))))>>)
\* { var a = 1; fun k(p, q) { a = p - q; } k(a = a * 6, a = a - 2); }
ArgumentsInOrder ==
    BlockStmt(<<VarStmt("a", LiteralExpr(Number(1))), FunK,
                ExpressionStmt(CallExpr(VariableExpr("k"),
                    <<AssignExpr("a", BinaryExpr(VariableExpr("a"), "*", LiteralExpr(Number(6)))),
                      AssignExpr("a", BinaryExpr(VariableExpr("a"), "-", LiteralExpr(Number(2))))>>))>>)
\* { var a = 1; fun k(p, q) { a = p - q; } k(a = 6); }
ArgumentBeforeArity ==
    BlockStmt(<<VarStmt("a", LiteralExpr(Number(1))), FunK,
                ExpressionStmt(CallExpr(VariableExpr("k"),
                    <<AssignExpr("a", LiteralExpr(Number(6)))>>))>>)
\* { var a = 1; a(a = clock); }
CalleeThenArgument ==
    BlockStmt(<<VarStmt("a", LiteralExpr(Number(1))),
                ExpressionStmt(CallExpr(VariableExpr("a"),
                    <<AssignExpr("a", VariableExpr("clock"))>>))>>)

\* var r = -6;   var r = !nil;   var r = -"a";
Negations ==
    {VarStmt("r", UnaryExpr("-", LiteralExpr(Number(6)))),
     VarStmt("r", UnaryExpr("!", LiteralExpr(Null))),
     VarStmt("r", UnaryExpr("-", LiteralExpr(String("a"))))}

Expressions ==
    {VarBinary(left, operator, right) :
        left \in Operands, operator \in BinaryOperators, right \in Operands}
    \cup {LogicalBlock(left, operator) : left \in LogicalOperands, operator \in {"and", "or"}}
    \cup {CallHBlock(arguments) : arguments \in ArgumentLists}
    \cup {VarClock(arguments) : arguments \in ArgumentLists}
    \cup {LeftThenRight, ArgumentsInOrder, ArgumentBeforeArity, CalleeThenArgument}
    \cup Negations

(***************************************************************************)
(* The interpreter                                                         *)
(***************************************************************************)
VARIABLES
    statements,    \* the statements interpret has executed so far, in order
    envs,          \* the heap of Rc<RefCell<Environment>>
    environment,   \* Interpreter.environment
    globals,       \* Interpreter.globals
    had_error,     \* the process-wide error flag
    errors,        \* the runtime errors reported so far
    output,        \* the values written to standard output
    dbg,           \* the ReturnErrors that reached the handler of interpret
    blocks,        \* the execute_block calls of the last statement
    calls,         \* the Function::call calls of the last statement
    source,        \* the source text handed to the parser
    parser,        \* the Parser
    program,       \* the statements Parser::parse returned
    got,           \* what the last read of a variable yielded
    scanner        \* the Scanner

vars == <<statements, envs, environment, globals, had_error, errors, output, dbg,
          blocks, calls, source, parser, program, got, scanner>>

\* Interpreter::new
Init ==
    /\ envs = <<[variables |-> ("clock" :> NativeFunction("clock"))
                                @@ ("input" :> NativeFunction("input")),
                 parent |-> 0]>>
    /\ environment = 1
    /\ globals = 1
    /\ had_error = FALSE
    /\ errors = <<>>
    /\ output = <<>>
    /\ dbg = <<>>
    /\ statements = <<>>
    /\ blocks = <<>>
    /\ calls = <<>>
    /\ source = [kind |-> "empty"]
    /\ parser = [tokens |-> <<[type |-> "EOF", lexeme |-> "", literal |-> None]>>,
                 current |-> 0, errors |-> <<>>, currents |-> {0}, previous_at |-> {},
                 synchronized |-> {}, declerations |-> {}]
    /\ program = <<>>
    /\ got = None
    /\ scanner = [source |-> <<>>, tokens |-> <<>>, start |-> 0, current |-> 0, line |-> 1,
                  reports |-> <<>>, panicked |-> FALSE, at |-> "main"]

\* The interpreter state a top-level statement starts in.
Start(now) ==
    [envs |-> envs, environment |-> environment, had_error |-> had_error,
     errors |-> errors, output |-> output, now |-> now,
     steps |-> 0, stuck |-> FALSE, raised |-> 0, blocks |-> <<>>, calls |-> <<>>]

\* interpret after execute returned x: `.unwrap_or_else(|err| { dbg!(err); })`.
unwrap_or_dbg(statement, x) ==
    /\ ~x.s.stuck
    /\ statements' = Append(statements, statement)
    /\ envs' = x.s.envs
    /\ environment' = x.s.environment
    /\ had_error' = x.s.had_error
    /\ errors' = x.s.errors
    /\ output' = x.s.output
    /\ dbg' = IF x.r.ok THEN dbg ELSE Append(dbg, x.r)
    /\ blocks' = x.s.blocks
    /\ calls' = x.s.calls
    /\ UNCHANGED <<globals, source, parser, program, got, scanner>>

\* One iteration of the loop of Interpreter::interpret.
Interpret(statement, now) ==
    /\ Len(statements) < MaxStmts
    /\ unwrap_or_dbg(statement, execute(statement, Start(now)))

Next == \E statement \in Statements, now \in ClockValues : Interpret(statement, now)

Spec == Init /\ [][Next]_vars

\* One iteration of the loop of Interpreter::interpret, on a program of
\* Expressions.
InterpretExpression(statement, now) ==
    /\ Len(statements) < MaxExpressions
    /\ unwrap_or_dbg(statement, execute(statement, Start(now)))

NextExpression ==
    \E statement \in Expressions, now \in ClockValues : InterpretExpression(statement, now)

SpecExpression == Init /\ [][NextExpression]_vars

(***************************************************************************)
(* The environments on their own: environments are created with a parent,  *)
(* names are defined in them and read from them.                           *)
(***************************************************************************)
\* Number of environments, the global one included.
MaxEnvironments == 2
\* Number of reads that fail.
MaxErrors == 1

Names == {"a", "b"}
Values == {Number(1), Number(2)}

\* Environment::new(Some(parent)), as visit_block_stmt and Function::call do.
new_environment(parent) ==
    /\ Len(envs) < MaxEnvironments
    /\ envs' = Append(envs, Environment_new(parent))
    /\ UNCHANGED <<statements, environment, globals, had_error, errors, output, dbg,
                   blocks, calls, source, parser, program, got, scanner>>

\* environment.define(name, value), as visit_var_stmt does.
define_in(id, name, v) ==
    /\ envs' = define(envs, id, name, v)
    /\ UNCHANGED <<statements, environment, globals, had_error, errors, output, dbg,
                   blocks, calls, source, parser, program, got, scanner>>

\* The interpreter has evaluated a variable to x in the environment id.
read_value(x) ==
    /\ got' = x.v
    /\ envs' = x.s.envs
    /\ had_error' = x.s.had_error
    /\ errors' = x.s.errors

\* visit_variable_expr of the variable `name` with the environment id current.
read_in(id, name) ==
    /\ Len(errors) < MaxErrors
    /\ read_value(visit_variable_expr(VariableExpr(name), [Start(5) EXCEPT !.environment = id]))
    /\ UNCHANGED <<statements, environment, globals, output, dbg, blocks, calls, source,
                   parser, program, scanner>>

NextEnvironment ==
    \/ \E parent \in DOMAIN envs : new_environment(parent)
    \/ \E id \in DOMAIN envs, name \in Names, v \in Values : define_in(id, name, v)
    \/ \E id \in DOMAIN envs, name \in Names \cup {"clock"} : read_in(id, name)

SpecEnvironment == Init /\ [][NextEnvironment]_vars

(***************************************************************************)
(* Properties                                                              *)
(***************************************************************************)
\* A step of interpret that executed `statement`.
Executed(statement) == statements' = Append(statements, statement)

\* The environment of the chain of `id` that binds `name`, 0 when none does.
RECURSIVE resolve(_, _, _)
resolve(es, id, name) ==
    IF name \in DOMAIN es[id].variables THEN id
    ELSE IF es[id].parent # 0 THEN resolve(es, es[id].parent, name)
    ELSE 0

\* `name` resolves, from the current environment, to a user function with `body`.
BoundToFunction(name, body) ==
    LET x == get(envs, environment, name)
    IN x.ok /\ x.value.t = "Function" /\ x.value.body = body

\* C1: after every execution of a block (execute_block) the current
\* environment is the one that was current before the block was entered, on
\* every exit path (normal completion, a Return, a runtime error inside).
C1_BlockRestoresEnvironment ==
    \A i \in DOMAIN blocks : blocks[i].after = blocks[i].previous

\* C2: after every call of a user function, whether the body ran to
\* completion or left through a return, the current environment is the one
\* that was current at the call site.
C2_CallRestoresEnvironment ==
    \A i \in DOMAIN calls : calls[i].after = calls[i].caller

\* C3: every call of a user function runs its body in an environment that did
\* not exist before the call, whose parent is the function's closure and whose
\* bindings are exactly the parameters bound positionally to the arguments;
\* so { var a = 5; f(); } with f = fun f() { print a; } prints the a of f's
\* defining scope chain, not the caller's local a.
C3_CallEnvironment ==
    [][/\ \A i \in DOMAIN calls' :
            LET c == calls'[i]
            IN /\ c.environment \notin 1..c.existed
               /\ c.environment \in DOMAIN envs'
               /\ envs'[c.environment].parent = c.closure
               /\ c.bound.parent = c.closure
               /\ DOMAIN c.bound.variables = {c.params[j] : j \in DOMAIN c.params}
               /\ \A j \in DOMAIN c.params : c.bound.variables[c.params[j]] = c.arguments[j]
               /\ \A j \in DOMAIN calls' : j # i => calls'[j].environment # c.environment
       /\ (/\ Executed(CallFInBlock)
           /\ BoundToFunction("f", FunF.body)
           /\ ~had_error
           /\ get(envs, resolve(envs, environment, "f"), "a").ok)
          => output' = Append(output, get(envs, resolve(envs, environment, "f"), "a").value)
      ]_vars

\* C3 witness: var a = 1; fun f() { print a; } { var a = 5; f(); } called f
\* from a block whose own a is 5, and 1 was printed.
C3_Witness ==
    /\ statements = <<VarA, FunF, CallFInBlock>>
    /\ Len(calls) = 1
    /\ calls[1].caller # calls[1].closure
    /\ envs[calls[1].caller].variables["a"] = Number(5)
    /\ output = <<Number(1)>>

\* C4: a function that reads an outer variable observes the value the
\* variable has when the function is called, whatever was assigned since the
\* function was defined: f() prints the current a of the scope f was defined in.
C4_ClosureByReference ==
    [][(/\ Executed(CallF)
        /\ BoundToFunction("f", FunF.body)
        /\ ~had_error
        /\ get(envs, resolve(envs, environment, "f"), "a").ok)
       => output' = Append(output, get(envs, resolve(envs, environment, "f"), "a").value)
      ]_vars

\* C4 witness: var a = 1; fun f() { print a; } a = 2; f(); printed 2.
C4_Witness ==
    /\ statements = <<VarA, FunF, AssignA, CallF>>
    /\ output = <<Number(2)>>

\* C5: a var declaration inside a block defines the name in the block's own
\* environment only and leaves every enclosing environment unchanged:
\* { var a = 3; print a; } prints 3 and changes no existing environment.
C5_Shadowing ==
    [][Executed(ShadowA)
       => /\ Len(envs') = Len(envs) + 1
          /\ SubSeq(envs', 1, Len(envs)) = envs
          /\ envs'[Len(envs')] = [variables |-> ("a" :> Number(3)), parent |-> environment]
          /\ environment' = environment
          /\ (~had_error => output' = Append(output, Number(3)))
      ]_vars

\* C5 witness: var a = 1; { var a = 3; print a; } print a; printed 3 then 1.
C5_Witness ==
    /\ statements = <<VarA, ShadowA, PrintA>>
    /\ output = <<Number(3), Number(1)>>

\* C6: a = 2 with a bound in no environment of the current chain reports an
\* Undefined variable error and changes no environment; with a bound, the
\* nearest binding is overwritten and nothing is reported; the value of the
\* expression is the assigned value.
C6_Assignment ==
    [][Executed(AssignA)
       => LET home == resolve(envs, environment, "a")
          IN /\ \A now \in ClockValues : evaluate(AssignA.expr, Start(now)).v = Number(2)
             /\ home = 0
                => /\ envs' = envs
                   /\ errors' = Append(errors, [token |-> "a", message |-> "Undefined variable"])
                   /\ had_error'
                   /\ ~get(envs', environment', "a").ok
             /\ home # 0
                => /\ envs' = [envs EXCEPT ![home].variables["a"] = Number(2)]
                   /\ errors' = errors
                   /\ get(envs', environment', "a").value = Number(2)
      ]_vars

\* C6 witness: a = 2; as the first statement was reported and bound nothing.
C6_Witness ==
    /\ statements = <<AssignA>>
    /\ errors = <<[token |-> "a", message |-> "Undefined variable"]>>
    /\ "a" \notin DOMAIN envs[globals].variables

\* C7: when a runtime error is raised during a top-level statement, the
\* statement aborts: a var declaration, an assignment or a print whose
\* expression failed defines, assigns and prints nothing.
C7_ErrorAbortsStatement ==
    [][(/\ \E statement \in {VarA, VarC, AssignA, PrintA} : Executed(statement)
        /\ Len(errors') > Len(errors))
       => /\ envs' = envs
          /\ output' = output
      ]_vars

\* C8: a print statement writes its value exactly when no runtime error was
\* signalled during the evaluation of its own expression, also after an
\* earlier top-level statement failed.
C8_PrintUnlessOwnError ==
    [][Executed(PrintA)
       => ((errors' = errors) <=> (Len(output') = Len(output) + 1))
      ]_vars

\* C9: a call whose body executed a return yields the returned value, with no
\* statement executed between the return and the call catching it; a call
\* whose body ran to completion yields Null; print g(1) with
\* g = fun g(b) { while (b) { if (b) { return b; } print 7; } print 8; }
\* prints 1 and neither 7 nor 8.
C9_ReturnUnwinds ==
    [][/\ \A i \in DOMAIN calls' :
            LET c == calls'[i]
            IN /\ c.signal.ok => c.value = Null
               /\ ~c.signal.ok => (c.value = c.signal.value /\ c.caught = c.raised)
       /\ (Executed(PrintG) /\ BoundToFunction("g", FunG.body) /\ ~had_error)
          => (output' = Append(output, Number(1)) /\ errors' = errors)
      ]_vars

\* C9 witness: fun g ...; print g(1); unwound three blocks and printed 1.
C9_Witness ==
    /\ statements = <<FunG, PrintG>>
    /\ Len(blocks) = 3
    /\ \A i \in DOMAIN blocks : blocks[i].exit = "return"
    /\ Len(calls) = 1 /\ calls[1].value = Number(1)
    /\ output = <<Number(1)>>

\* C10: no Return value escapes from the execution of a top-level statement
\* into the error handler of interpret.
C10_NoReturnAtTopLevel == dbg = <<>>

(***************************************************************************)
(* Properties of expression evaluation (SpecExpression)                    *)
(***************************************************************************)
\* The value of an operand of Operands.
OperandValue(expr) ==
    IF expr.k = "Literal" THEN expr.value ELSE NativeFunction("clock")

\* The statement a step of interpret executed.
Latest == statements'[Len(statements')]

\* A step of interpret that executed var r = <left> <operator> <right>;
ExecutedBinary ==
    /\ Len(statements') = Len(statements) + 1
    /\ Latest.k = "Var"
    /\ Latest.initializer.k = "Binary"

\* The bindings of the environment a top-level block statement created.
BlockVariables == envs'[Len(envs) + 1].variables

\* C11: a call of a user function with a number of arguments different from
\* its number of parameters reports a RuntimeError at the closing parenthesis
\* that names the expected and the actual count, creates no environment and
\* executes nothing of the body; every body that is executed was called with
\* as many arguments as parameters.
C11_ArityMismatch ==
    [][/\ \A i \in DOMAIN calls' : Len(calls'[i].arguments) = Len(calls'[i].params)
       /\ \A arguments \in ArgumentLists :
            Executed(CallHBlock(arguments))
            => IF Len(arguments) = 1
               THEN /\ errors' = errors
                    /\ Len(calls') = 1
                    /\ BlockVariables["a"] = Number(7)
               ELSE /\ errors' = Append(errors, [token |-> ")",
                                                 message |-> "Expected arguments",
                                                 expected |-> 1,
                                                 got |-> Len(arguments)])
                    /\ had_error'
                    /\ calls' = <<>>
                    /\ Len(blocks') = 1
                    /\ Len(envs') = Len(envs) + 1
                    /\ BlockVariables["a"] = Number(0)
                    /\ output' = output
      ]_vars

\* C11 witness: { var a = 0; fun h(p) { a = p; } h(7, 8); } reported
\* "expected 1, got 2" and did not call h.
C11_Witness ==
    /\ statements = <<CallHBlock(<<LiteralExpr(Number(7)), LiteralExpr(Number(8))>>)>>
    /\ Len(errors) = 1
    /\ errors[1].expected = 1 /\ errors[1].got = 2 /\ errors[1].token = ")"
    /\ calls = <<>>
    /\ envs[2].variables["a"] = Number(0)

\* C12: native functions are exempt from the arity check: a call of clock
\* with any number of arguments invokes the host procedure and raises no
\* RuntimeError.
C12_NativeArityNotEnforced ==
    [][\A arguments \in ArgumentLists :
            Executed(VarClock(arguments))
            => /\ errors' = errors
               /\ \E now \in ClockValues : envs'[globals].variables["r"] = Number(now)
      ]_vars

\* C13: the right operand of `and` is evaluated exactly when the left operand
\* is truthy, that of `or` exactly when it is falsy; a skipped right operand
\* has no effect and the result is the left operand's value itself, otherwise
\* the result is the right operand's value.
C13_ShortCircuit ==
    [][\A left \in LogicalOperands, operator \in {"and", "or"} :
            Executed(LogicalBlock(left, operator))
            => LET truthy == left.value \notin {Null, Bool(FALSE)}
                   skipped == IF operator = "and" THEN ~truthy ELSE truthy
               IN /\ errors' = errors
                  /\ skipped => /\ BlockVariables["a"] = Number(1)
                                /\ BlockVariables["r"] = left.value
                  /\ ~skipped => /\ BlockVariables["a"] = Number(2)
                                 /\ BlockVariables["r"] = Number(2)
      ]_vars

\* C13 witness: { var a = 1; var r = nil and (a = 2); } left a at 1 and bound
\* r to nil; { var a = 1; var r = 0 or (a = 2); } would bind r to 0.
C13_Witness ==
    /\ statements = <<LogicalBlock(LiteralExpr(Null), "and")>>
    /\ envs[2].variables["a"] = Number(1)
    /\ envs[2].variables["r"] = Null

\* C14: + yields the sum of two Numbers and the concatenation, left then
\* right, of two Strings; for every other pairing of operands it reports a
\* RuntimeError at the operator, raises the error flag and yields Null.
C14_Plus ==
    [][(ExecutedBinary /\ Latest.initializer.operator = "+")
            => LET l == OperandValue(Latest.initializer.left)
                   r == OperandValue(Latest.initializer.right)
                   value == envs'[globals].variables["r"]
               IN IF l.t = "Number" /\ r.t = "Number"
                  THEN /\ value = Number(l.n + r.n)
                       /\ errors' = errors
                       /\ had_error' = had_error
                       /\ (l.n = 6 /\ r.n = 2) => value = Number(8)
                  ELSE IF l.t = "String" /\ r.t = "String"
                  THEN /\ value = String(l.s \o r.s)
                       /\ errors' = errors
                       /\ had_error' = had_error
                       /\ (l.s = "a" /\ r.s = "b") => value = String("ab")
                  ELSE /\ value = Null
                       /\ errors' = Append(errors,
                              [token |-> "+",
                               message |-> "Tried to add two unsupported types"])
                       /\ had_error'
      ]_vars

\* C14 witness: var r = "a" + 6; reported the error and bound r to Null.
C14_Witness ==
    /\ statements = <<VarBinary(LiteralExpr(String("a")), "+", LiteralExpr(Number(6)))>>
    /\ errors = <<[token |-> "+", message |-> "Tried to add two unsupported types"]>>
    /\ had_error
    /\ envs[globals].variables["r"] = Null

\* The results of the operators other than + on the numbers 6 and 2.
SixAndTwo ==
    [operator \in BinaryOperators \ {"+"} |->
        CASE operator = ">" -> Bool(TRUE)
          [] operator = ">=" -> Bool(TRUE)
          [] operator = "<" -> Bool(FALSE)
          [] operator = "<=" -> Bool(FALSE)
          [] operator = "==" -> Bool(FALSE)
          [] operator = "!=" -> Bool(TRUE)
          [] operator = "/" -> Number(3)
          [] operator = "*" -> Number(12)
          [] operator = "-" -> Number(4)]

C16_LeftToRight ==
    [][/\ Executed(LeftThenRight)
          => /\ BlockVariables["a"] = Number(6)
             /\ BlockVariables["r"] = Number(0)
       /\ Executed(ArgumentsInOrder)
          => /\ Len(calls') = 1
             /\ calls'[1].arguments = <<Number(6), Number(4)>>
             /\ BlockVariables["a"] = Number(2)
       /\ Executed(ArgumentBeforeArity)
          => /\ BlockVariables["a"] = Number(6)
             /\ calls' = <<>>
             /\ errors' = Append(errors, [token |-> ")", message |-> "Expected arguments",
                                          expected |-> 2, got |-> 1])
       /\ Executed(CalleeThenArgument)
          => /\ BlockVariables["a"] = NativeFunction("clock")
             /\ calls' = <<>>
             /\ errors' = Append(errors, [token |-> ")",
                                          message |-> "Can only call functions and classes"])
      ]_vars

\* C16 witness: { var a = 1; fun k(p, q) { a = p - q; } k(a = a * 6, a = a - 2); }
\* called k with 6 and 4.
C16_Witness ==
    /\ statements = <<ArgumentsInOrder>>
    /\ Len(calls) = 1
    /\ calls[1].arguments = <<Number(6), Number(4)>>
    /\ envs[2].variables["a"] = Number(2)

(***************************************************************************)
(* Parser (src/parser.rs).  A token is [type, lexeme, literal]; the state  *)
(* of the parser is p = [tokens, current, errors] with two records of its  *)
(* history: currents, every value `current` has held, and previous_at, the *)
(* values of `current` at which previous() was evaluated.  A parsing       *)
(* procedure maps p to x = [p |-> state after, r |-> result].              *)
(***************************************************************************)
Token_new(type, lexeme, literal) == [type |-> type, lexeme |-> lexeme, literal |-> literal]

\* What a read outside the token vector yields.
OutOfBounds == [type |-> "OutOfBounds"]

\* Besides the fields of Parser, the record keeps what the parser did: every
\* value of current, every current at which previous() was evaluated, the
\* values of current on entry to and on return from every synchronize call and
\* every decleration call.
Parser_new(tokens) ==
    [tokens |-> tokens, current |-> 0, errors |-> <<>>,
     currents |-> {0}, previous_at |-> {}, synchronized |-> {}, declerations |-> {}]

\* ParseResult: Ok(value) and Err(ParseError).
ParseOk(value) == [ok |-> TRUE, v |-> value]
ParseErr(token, message) == [ok |-> FALSE, error |-> [token |-> token, message |-> message]]

\* ParseError::throw reports the error.
ParseError_throw(p, error) == [p EXCEPT !.errors = Append(@, error)]

\* &self.tokens[self.current as usize]
peek(p) ==
    IF p.current + 1 \in DOMAIN p.tokens THEN p.tokens[p.current + 1] ELSE OutOfBounds

\* &self.tokens[(self.current - 1) as usize]
previous(p) ==
    IF p.current \in DOMAIN p.tokens THEN p.tokens[p.current] ELSE OutOfBounds

\* The parser after it evaluated previous().
previous_read(p) == [p EXCEPT !.previous_at = @ \cup {p.current}]

is_at_end(p) == peek(p).type = "EOF"

check(p, type) == IF is_at_end(p) THEN FALSE ELSE peek(p).type = type

\* advance; the token it returns is previous() of the state after.
advance(p) ==
    IF ~is_at_end(p)
    THEN previous_read([p EXCEPT !.current = @ + 1, !.currents = @ \cup {p.current + 1}])
    ELSE previous_read(p)

\* The condition of the macro matches!; the macro advances when it holds.
matches(p, types) == \E type \in types : check(p, type)

consume(p, type, message) ==
    IF check(p, type)
    THEN [p |-> advance(p), r |-> ParseOk(previous(advance(p)))]
    ELSE [p |-> previous_read(p), r |-> ParseErr(previous(p), message)]

\* The most arguments of a call and parameters of a function.
MaxArguments == 255
MaxParameters == 255

RECURSIVE synchronize_loop(_)

\* synchronize: one turn of the loop after previous() was read.
synchronize_turn(p) ==
    IF previous(p).type = "Semicolon" THEN p
    ELSE IF peek(p).type \in {"Class", "Fun", "Var", "For", "If", "While", "Print", "Return"}
    THEN p
    ELSE synchronize_loop(advance(p))

\* synchronize: the loop.
synchronize_loop(p) == IF is_at_end(p) THEN p ELSE synchronize_turn(previous_read(p))

\* synchronize has returned q; it was entered with current = from.
synchronize_return(from, q) ==
    [q EXCEPT !.synchronized = @ \cup {[from |-> from, to |-> q.current]}]

\* A faulty variant of synchronize: a keyword that starts a statement does not
\* end the loop, only a semicolon does.
RECURSIVE synchronize_past_keywords_loop(_)
synchronize_past_keywords_turn(p) ==
    IF previous(p).type = "Semicolon" THEN p
    ELSE synchronize_past_keywords_loop(advance(p))
synchronize_past_keywords_loop(p) ==
    IF is_at_end(p) THEN p ELSE synchronize_past_keywords_turn(previous_read(p))
synchronize_past_keywords(p) ==
    synchronize_return(p.current, synchronize_past_keywords_loop(advance(p)))

\* A faulty variant of synchronize: the token the error was found at is not
\* consumed before the loop.
synchronize_stays(p) == synchronize_return(p.current, synchronize_loop(p))

synchronize(p) == synchronize_return(p.current, synchronize_loop(advance(p)))

RECURSIVE expression(_)
RECURSIVE assignment(_)
RECURSIVE or_loop(_)
RECURSIVE and_loop(_)
RECURSIVE equality_loop(_)
RECURSIVE comparison_loop(_)
RECURSIVE term_loop(_)
RECURSIVE factor_loop(_)
RECURSIVE unary(_)
RECURSIVE call_loop(_)
RECURSIVE finish_call_turns(_, _, _)

\* primary: `(` expression `)` after the expression.
primary_grouping(x) ==
    IF ~x.r.ok THEN x
    ELSE IF check(x.p, "RightParen")
    THEN [p |-> advance(x.p), r |-> ParseOk(GroupingExpr(x.r.v))]
    ELSE [p |-> previous_read(x.p),
          r |-> ParseErr(previous(x.p), "Expected ')' after expression")]

\* A faulty variant of primary: the error names the previous token, as the
\* error of consume does.
primary_previous(p) ==
    IF matches(p, {"False"}) THEN [p |-> advance(p), r |-> ParseOk(LiteralExpr(Bool(FALSE)))]
    ELSE IF matches(p, {"True"}) THEN [p |-> advance(p), r |-> ParseOk(LiteralExpr(Bool(TRUE)))]
    ELSE IF matches(p, {"Null"}) THEN [p |-> advance(p), r |-> ParseOk(LiteralExpr(Null))]
    ELSE IF matches(p, {"Number", "String"})
    THEN [p |-> advance(p), r |-> ParseOk(LiteralExpr(previous(advance(p)).literal))]
    ELSE IF matches(p, {"Identifier"})
    THEN [p |-> advance(p), r |-> ParseOk(VariableExpr(previous(advance(p))))]
    ELSE IF matches(p, {"LeftParen"}) THEN primary_grouping(expression(advance(p)))
    ELSE [p |-> previous_read(p), r |-> ParseErr(previous(p), "Expected expression")]

primary(p) ==
    IF matches(p, {"False"}) THEN [p |-> advance(p), r |-> ParseOk(LiteralExpr(Bool(FALSE)))]
    ELSE IF matches(p, {"True"}) THEN [p |-> advance(p), r |-> ParseOk(LiteralExpr(Bool(TRUE)))]
    ELSE IF matches(p, {"Null"}) THEN [p |-> advance(p), r |-> ParseOk(LiteralExpr(Null))]
    ELSE IF matches(p, {"Number", "String"})
    THEN [p |-> advance(p), r |-> ParseOk(LiteralExpr(previous(advance(p)).literal))]
    ELSE IF matches(p, {"Identifier"})
    THEN [p |-> advance(p), r |-> ParseOk(VariableExpr(previous(advance(p))))]
    ELSE IF matches(p, {"LeftParen"}) THEN primary_grouping(expression(advance(p)))
    ELSE [p |-> p, r |-> ParseErr(peek(p), "Expected expression")]

\* finish_call after the arguments: the closing parenthesis.
finish_call_paren(callee, arguments, x) ==
    IF ~x.r.ok THEN x
    ELSE [p |-> x.p, r |-> ParseOk([k |-> "Call", callee |-> callee, paren |-> x.r.v,
                                    arguments |-> arguments])]

\* finish_call: `arguments.push(self.expression()?); matches!(self, Type::Comma)`
\* `more` tells whether the loop takes another turn.
finish_call_push(callee, arguments, x) ==
    IF ~x.r.ok THEN [p |-> x.p, r |-> x.r, arguments |-> arguments, more |-> FALSE]
    ELSE [p |-> IF matches(x.p, {"Comma"}) THEN advance(x.p) ELSE x.p,
          r |-> ParseOk(0), arguments |-> Append(arguments, x.r.v),
          more |-> matches(x.p, {"Comma"})]

\* finish_call: the report of more than 255 arguments, which does not end the
\* call; a is [p, arguments].
finish_call_limit(a) ==
    IF Len(a.arguments) >= MaxArguments
    THEN ParseError_throw(a.p, [token |-> peek(a.p),
                                message |-> "Can't have more than 255 arguments"])
    ELSE a.p

\* finish_call: one turn of the loop over the arguments; a is
\* [p, r, arguments, more].
finish_call_turn(callee, a) ==
    finish_call_push(callee, a.arguments, expression(finish_call_limit(a)))

\* finish_call: the turns of the loop, at most `turns` of them.  The turns are
\* split in halves, so that a list of n arguments nests log n deep.
finish_call_turns(callee, a, turns) ==
    IF ~a.more THEN a
    ELSE IF turns <= 1 THEN finish_call_turn(callee, a)
    ELSE finish_call_turns(callee, finish_call_turns(callee, a, turns \div 2),
                           turns - turns \div 2)

\* finish_call: the loop over the arguments, which takes a turn per argument
\* and so at most as many as there are tokens.
finish_call_loop(callee, p) ==
    finish_call_turns(callee, [p |-> p, r |-> ParseOk(0), arguments |-> <<>>, more |-> TRUE],
                      Len(p.tokens))

\* finish_call from the consume of the closing parenthesis on.
finish_call_end(callee, a) ==
    IF ~a.r.ok THEN [p |-> a.p, r |-> a.r]
    ELSE finish_call_paren(callee, a.arguments,
                           consume(a.p, "RightParen", "Expect ')' after arguments"))

finish_call(p, callee) ==
    IF ~check(p, "RightParen")
    THEN finish_call_end(callee, finish_call_loop(callee, p))
    ELSE finish_call_end(callee, [p |-> p, r |-> ParseOk(0), arguments |-> <<>>])

\* call: the loop over the argument lists that follow the primary.
call_loop(x) ==
    IF ~x.r.ok THEN x
    ELSE IF matches(x.p, {"LeftParen"}) THEN call_loop(finish_call(advance(x.p), x.r.v))
    ELSE x

call(p) == call_loop(primary(p))

\* unary after the operand.
unary_operand(operator, x) ==
    IF ~x.r.ok THEN x ELSE [p |-> x.p, r |-> ParseOk(UnaryExpr(operator, x.r.v))]

unary(p) ==
    IF matches(p, {"Bang", "Minus"}) THEN unary_operand(previous(advance(p)), unary(advance(p)))
    ELSE call(p)

\* factor, term, comparison, equality, and, or: the node built from the left
\* operand, the operator token and the right operand x, handed to the loop.
factor_right(left, operator, x) ==
    IF ~x.r.ok THEN x
    ELSE factor_loop([p |-> x.p, r |-> ParseOk(BinaryExpr(left, operator, x.r.v))])

factor_loop(x) ==
    IF ~x.r.ok THEN x
    ELSE IF matches(x.p, {"Slash", "Star"})
    THEN factor_right(x.r.v, previous(advance(x.p)), unary(advance(x.p)))
    ELSE x

\* A faulty variant of factor: + and - are parsed at the level of * and /.
RECURSIVE factor_flat_loop(_)
factor_flat_right(left, operator, x) ==
    IF ~x.r.ok THEN x
    ELSE factor_flat_loop([p |-> x.p, r |-> ParseOk(BinaryExpr(left, operator, x.r.v))])
factor_flat_loop(x) ==
    IF ~x.r.ok THEN x
    ELSE IF matches(x.p, {"Slash", "Star", "Minus", "Plus"})
    THEN factor_flat_right(x.r.v, previous(advance(x.p)), unary(advance(x.p)))
    ELSE x
factor_flat(p) == factor_flat_loop(unary(p))

factor(p) == factor_loop(unary(p))

term_right(left, operator, x) ==
    IF ~x.r.ok THEN x
    ELSE term_loop([p |-> x.p, r |-> ParseOk(BinaryExpr(left, operator, x.r.v))])

term_loop(x) ==
    IF ~x.r.ok THEN x
    ELSE IF matches(x.p, {"Minus", "Plus"})
    THEN term_right(x.r.v, previous(advance(x.p)), factor(advance(x.p)))
    ELSE x

\* A faulty variant of term: the right operand of + and - is the rest of the
\* chain (right associativity).
RECURSIVE term_right_associative(_)
term_rest(left, operator, x) ==
    IF ~x.r.ok THEN x ELSE [p |-> x.p, r |-> ParseOk(BinaryExpr(left, operator, x.r.v))]
term_first(x) ==
    IF ~x.r.ok THEN x
    ELSE IF matches(x.p, {"Minus", "Plus"})
    THEN term_rest(x.r.v, previous(advance(x.p)), term_right_associative(advance(x.p)))
    ELSE x
term_right_associative(p) == term_first(factor(p))

term(p) == term_loop(factor(p))

comparison_right(left, operator, x) ==
    IF ~x.r.ok THEN x
    ELSE comparison_loop([p |-> x.p, r |-> ParseOk(BinaryExpr(left, operator, x.r.v))])

comparison_loop(x) ==
    IF ~x.r.ok THEN x
    ELSE IF matches(x.p, {"Greater", "GreaterEqual", "Less", "LessEqual"})
    THEN comparison_right(x.r.v, previous(advance(x.p)), term(advance(x.p)))
    ELSE x

comparison(p) == comparison_loop(term(p))

equality_right(left, operator, x) ==
    IF ~x.r.ok THEN x
    ELSE equality_loop([p |-> x.p, r |-> ParseOk(BinaryExpr(left, operator, x.r.v))])

equality_loop(x) ==
    IF ~x.r.ok THEN x
    ELSE IF matches(x.p, {"BangEqual", "EqualEqual"})
    THEN equality_right(x.r.v, previous(advance(x.p)), comparison(advance(x.p)))
    ELSE x

equality(p) == equality_loop(comparison(p))

and_right(left, operator, x) ==
    IF ~x.r.ok THEN x
    ELSE and_loop([p |-> x.p, r |-> ParseOk(LogicalExpr(left, operator, x.r.v))])

and_loop(x) ==
    IF ~x.r.ok THEN x
    ELSE IF matches(x.p, {"And"})
    THEN and_right(x.r.v, previous(advance(x.p)), equality(advance(x.p)))
    ELSE x

and(p) == and_loop(equality(p))

or_right(left, operator, x) ==
    IF ~x.r.ok THEN x
    ELSE or_loop([p |-> x.p, r |-> ParseOk(LogicalExpr(left, operator, x.r.v))])

or_loop(x) ==
    IF ~x.r.ok THEN x
    ELSE IF matches(x.p, {"Or"})
    THEN or_right(x.r.v, previous(advance(x.p)), and(advance(x.p)))
    ELSE x

or(p) == or_loop(and(p))

\* assignment after the value: an Assign for a Variable target, else the
\* error is reported and the target itself is the result.
assignment_value(target, equals, x) ==
    IF ~x.r.ok THEN x
    ELSE IF target.k = "Variable"
    THEN [p |-> x.p, r |-> ParseOk(AssignExpr(target.name, x.r.v))]
    ELSE [p |-> ParseError_throw(x.p, [token |-> equals,
                                       message |-> "Invalid assignment target"]),
          r |-> ParseOk(target)]

\* assignment after the target.
assignment_target(x) ==
    IF ~x.r.ok THEN x
    ELSE IF matches(x.p, {"Equal"})
    THEN assignment_value(x.r.v, previous(advance(x.p)), assignment(advance(x.p)))
    ELSE x

\* A faulty variant of assignment: an invalid target ends the expression with
\* an error.
assignment_fatal_value(target, equals, x) ==
    IF ~x.r.ok THEN x
    ELSE IF target.k = "Variable"
    THEN [p |-> x.p, r |-> ParseOk(AssignExpr(target.name, x.r.v))]
    ELSE [p |-> x.p, r |-> ParseErr(equals, "Invalid assignment target")]
assignment_fatal_target(x) ==
    IF ~x.r.ok THEN x
    ELSE IF matches(x.p, {"Equal"})
    THEN assignment_fatal_value(x.r.v, previous(advance(x.p)), assignment(advance(x.p)))
    ELSE x
assignment_fatal(p) == assignment_fatal_target(or(p))

assignment(p) == assignment_target(or(p))

expression(p) == assignment(p)

RECURSIVE decleration(_)
RECURSIVE statement(_)
RECURSIVE block_loop(_)

\* block: the consume of the closing brace; b is [p, statements].
block_end(b, x) ==
    IF ~x.r.ok THEN x ELSE [p |-> x.p, r |-> ParseOk(b.statements)]

\* block: `if let Some(stmt) = self.decleration() { statements.push(stmt); }`
block_push(stmts, x) ==
    block_loop([p |-> x.p,
                statements |-> IF x.r.some THEN Append(stmts, x.r.v) ELSE stmts])

\* block: the loop over the declerations.
block_loop(b) ==
    IF ~check(b.p, "RightBrace") /\ ~is_at_end(b.p)
    THEN block_push(b.statements, decleration(b.p))
    ELSE block_end(b, consume(b.p, "RightBrace", "Expect '}' after block"))

block(p) == block_loop([p |-> p, statements |-> <<>>])

\* function after the body.
function_body(name, params, x) ==
    IF ~x.r.ok THEN x ELSE [p |-> x.p, r |-> ParseOk(FunctionStmt(name, params, x.r.v))]

\* function after the consume of the opening brace.
function_brace(name, params, x) ==
    IF ~x.r.ok THEN x ELSE function_body(name, params, block(x.p))

\* function after the consume of the closing parenthesis.
function_paren(name, params, kind, x) ==
    IF ~x.r.ok THEN x
    ELSE function_brace(name, params, consume(x.p, "LeftBrace", "Expect '{' before body"))

\* function after the parameters; a is [p, r, params].
function_end(name, kind, a) ==
    IF ~a.r.ok THEN [p |-> a.p, r |-> a.r]
    ELSE function_paren(name, a.params, kind,
                        consume(a.p, "RightParen", "Expect ')' after parameters"))

\* function: `params.push(self.consume(...)?); if !matches!(self, Type::Comma) { break; }`
\* `more` tells whether the loop takes another turn.
function_push(params, x) ==
    IF ~x.r.ok THEN [p |-> x.p, r |-> x.r, params |-> params, more |-> FALSE]
    ELSE [p |-> IF matches(x.p, {"Comma"}) THEN advance(x.p) ELSE x.p,
          r |-> ParseOk(0), params |-> Append(params, x.r.v),
          more |-> matches(x.p, {"Comma"})]

\* function: one turn of the loop over the parameters; a is
\* [p, r, params, more].  More than 255 parameters end the function with an
\* error.
function_turn(a) ==
    IF Len(a.params) >= MaxParameters
    THEN [p |-> a.p, r |-> ParseErr(peek(a.p), "Can't have more than 255 parameters"),
          params |-> a.params, more |-> FALSE]
    ELSE function_push(a.params, consume(a.p, "Identifier", "Expect parameter name"))

\* function: the turns of the loop, at most `turns` of them, split in halves
\* as in finish_call_turns.
RECURSIVE function_turns(_, _)
function_turns(a, turns) ==
    IF ~a.more THEN a
    ELSE IF turns <= 1 THEN function_turn(a)
    ELSE function_turns(function_turns(a, turns \div 2), turns - turns \div 2)

\* function: the loop over the parameters.
function_params(p) ==
    function_turns([p |-> p, r |-> ParseOk(0), params |-> <<>>, more |-> TRUE],
                   Len(p.tokens))

\* function after the consume of the opening parenthesis.
function_open(name, kind, x) ==
    IF ~x.r.ok THEN x
    ELSE IF ~check(x.p, "RightParen")
    THEN function_end(name, kind, function_params(x.p))
    ELSE function_end(name, kind, [p |-> x.p, r |-> ParseOk(0), params |-> <<>>])

\* function after the consume of the name.
function_name(kind, x) ==
    IF ~x.r.ok THEN x
    ELSE function_open(x.r.v, kind, consume(x.p, "LeftParen", "Expect '(' after name"))

function(p, kind) == function_name(kind, consume(p, "Identifier", "Expect name"))

\* var_decleration: the consume of the semicolon and the Var statement.
var_semicolon(name, initializer, x) ==
    IF ~x.r.ok THEN x ELSE [p |-> x.p, r |-> ParseOk(VarStmt(name, initializer))]

\* var_decleration after the initializer.
var_initializer(name, x) ==
    IF ~x.r.ok THEN x
    ELSE var_semicolon(name, x.r.v,
                       consume(x.p, "Semicolon", "Expect ';' after variable decleration"))

\* var_decleration after the consume of the name.
var_name(x) ==
    IF ~x.r.ok THEN x
    ELSE IF matches(x.p, {"Equal"}) THEN var_initializer(x.r.v, expression(advance(x.p)))
    ELSE var_semicolon(x.r.v, None,
                       consume(x.p, "Semicolon", "Expect ';' after variable decleration"))

var_decleration(p) == var_name(consume(p, "Identifier", "Expect variable name"))

\* A statement that ends with the consume x of a semicolon.
semicolon_end(stmt, x) ==
    IF ~x.r.ok THEN x ELSE [p |-> x.p, r |-> ParseOk(stmt)]

\* expression_statement after the expression.
expression_statement_expr(x) ==
    IF ~x.r.ok THEN x
    ELSE semicolon_end(ExpressionStmt(x.r.v),
                       consume(x.p, "Semicolon", "Expect ';' after expression"))

expression_statement(p) == expression_statement_expr(expression(p))

\* print_statement after the expression.
print_statement_expr(x) ==
    IF ~x.r.ok THEN x
    ELSE semicolon_end(PrintStmt(x.r.v), consume(x.p, "Semicolon", "Expect ';' after value"))

print_statement(p) == print_statement_expr(expression(p))

\* return_statement after the value.
return_statement_value(keyword, x) ==
    IF ~x.r.ok THEN x
    ELSE semicolon_end([k |-> "Return", keyword |-> keyword, value |-> x.r.v],
                       consume(x.p, "Semicolon", "Expect ';' after return value"))

return_statement(p) ==
    IF check(p, "Semicolon")
    THEN return_statement_value(previous(p), [p |-> p, r |-> ParseOk(None)])
    ELSE return_statement_value(previous(p), expression(p))

\* while_statement after the body.
while_statement_body(condition, x) ==
    IF ~x.r.ok THEN x ELSE [p |-> x.p, r |-> ParseOk(WhileStmt(condition, x.r.v))]

\* while_statement after the consume of the closing parenthesis.
while_statement_paren(condition, x) ==
    IF ~x.r.ok THEN x ELSE while_statement_body(condition, statement(x.p))

\* while_statement after the condition.
while_statement_condition(x) ==
    IF ~x.r.ok THEN x
    ELSE while_statement_paren(x.r.v,
                               consume(x.p, "RightParen", "Expect ')' after condition."))

\* while_statement after the consume of the opening parenthesis.
while_statement_open(x) ==
    IF ~x.r.ok THEN x ELSE while_statement_condition(expression(x.p))

while_statement(p) == while_statement_open(consume(p, "LeftParen", "Expect '(' after while."))

\* if_statement after the else branch.
if_statement_else(condition, then_branch, x) ==
    IF ~x.r.ok THEN x ELSE [p |-> x.p, r |-> ParseOk(IfStmt(condition, then_branch, x.r.v))]

\* if_statement after the then branch.
if_statement_then(condition, x) ==
    IF ~x.r.ok THEN x
    ELSE IF matches(x.p, {"Else"})
    THEN if_statement_else(condition, x.r.v, statement(advance(x.p)))
    ELSE [p |-> x.p, r |-> ParseOk(IfStmt(condition, x.r.v, None))]

\* if_statement after the consume of the closing parenthesis.
if_statement_paren(condition, x) ==
    IF ~x.r.ok THEN x ELSE if_statement_then(condition, statement(x.p))

\* if_statement after the condition.
if_statement_condition(x) ==
    IF ~x.r.ok THEN x
    ELSE if_statement_paren(x.r.v,
                            consume(x.p, "RightParen", "Expect ')' after if condition"))

\* if_statement after the consume of the opening parenthesis.
if_statement_open(x) ==
    IF ~x.r.ok THEN x ELSE if_statement_condition(expression(x.p))

if_statement(p) == if_statement_open(consume(p, "LeftParen", "Expect '(' after 'if'"))

\* for_statement: the loop built from the clauses and the body.
for_statement_desugar(initializer, condition, increment, body) ==
    LET with_increment ==
            IF increment # None
            THEN BlockStmt(<<body, ExpressionStmt(increment)>>)
            ELSE body
        loop ==
            WhileStmt(IF condition # None THEN condition ELSE LiteralExpr(Bool(TRUE)),
                      with_increment)
    IN IF initializer # None THEN BlockStmt(<<initializer, loop>>) ELSE loop

\* for_statement after the body.
for_statement_body(initializer, condition, increment, x) ==
    IF ~x.r.ok THEN x
    ELSE [p |-> x.p,
          r |-> ParseOk(for_statement_desugar(initializer, condition, increment, x.r.v))]

\* for_statement after the consume of the closing parenthesis.
for_statement_paren(initializer, condition, increment, x) ==
    IF ~x.r.ok THEN x
    ELSE for_statement_body(initializer, condition, increment, statement(x.p))

\* for_statement after the increment.
for_statement_increment(initializer, condition, x) ==
    IF ~x.r.ok THEN x
    ELSE for_statement_paren(initializer, condition, x.r.v,
                             consume(x.p, "RightParen", "Expect ')' after loop clauses"))

\* for_statement after the consume of the semicolon of the condition.
for_statement_semicolon(initializer, condition, x) ==
    IF ~x.r.ok THEN x
    ELSE IF ~check(x.p, "RightParen")
    THEN for_statement_increment(initializer, condition, expression(x.p))
    ELSE for_statement_increment(initializer, condition, [p |-> x.p, r |-> ParseOk(None)])

\* for_statement after the condition.
for_statement_condition(initializer, x) ==
    IF ~x.r.ok THEN x
    ELSE for_statement_semicolon(initializer, x.r.v,
                                 consume(x.p, "Semicolon", "Expect ';' after loop condition"))

\* for_statement after the initializer.
for_statement_initializer(x) ==
    IF ~x.r.ok THEN x
    ELSE IF ~check(x.p, "Semicolon")
    THEN for_statement_condition(x.r.v, expression(x.p))
    ELSE for_statement_condition(x.r.v, [p |-> x.p, r |-> ParseOk(None)])

\* for_statement after the consume of the opening parenthesis.
for_statement_open(x) ==
    IF ~x.r.ok THEN x
    ELSE IF matches(x.p, {"Semicolon"})
    THEN for_statement_initializer([p |-> advance(x.p), r |-> ParseOk(None)])
    ELSE IF matches(x.p, {"Var"})
    THEN for_statement_initializer(var_decleration(advance(x.p)))
    ELSE for_statement_initializer(expression_statement(x.p))

for_statement(p) == for_statement_open(consume(p, "LeftParen", "Expect '(' after 'for'"))

\* statement: `Ok(Stmt::Block(BlockData { statements: self.block()? }))`
statement_block(x) ==
    IF ~x.r.ok THEN x ELSE [p |-> x.p, r |-> ParseOk(BlockStmt(x.r.v))]

statement(p) ==
    IF matches(p, {"For"}) THEN for_statement(advance(p))
    ELSE IF matches(p, {"If"}) THEN if_statement(advance(p))
    ELSE IF matches(p, {"Print"}) THEN print_statement(advance(p))
    ELSE IF matches(p, {"Return"}) THEN return_statement(advance(p))
    ELSE IF matches(p, {"While"}) THEN while_statement(advance(p))
    ELSE IF matches(p, {"LeftBrace"}) THEN statement_block(block(advance(p)))
    ELSE expression_statement(p)

\* decleration: the match on the result; Some(stmt), or None after the error
\* was reported and the parser synchronized.
decleration_match(x) ==
    IF x.r.ok THEN [p |-> x.p, r |-> [some |-> TRUE, v |-> x.r.v]]
    ELSE [p |-> synchronize(ParseError_throw(x.p, x.r.error)), r |-> [some |-> FALSE]]

\* decleration has returned x; it was entered with current = from.
decleration_return(from, x) ==
    [p |-> [x.p EXCEPT !.declerations = @ \cup {[from |-> from, to |-> x.p.current]}],
     r |-> x.r]

decleration(p) ==
    IF matches(p, {"Fun"})
    THEN decleration_return(p.current, decleration_match(function(advance(p), "function")))
    ELSE IF matches(p, {"Var"})
    THEN decleration_return(p.current, decleration_match(var_decleration(advance(p))))
    ELSE decleration_return(p.current, decleration_match(statement(p)))

(***************************************************************************)
(* The sources handed to the parser.  A source is described by its kind    *)
(* and its parts; Tokens is the token vector the scanner makes of it.      *)
(***************************************************************************)
\* Number of binary operators of an expression source.
MaxOperators == 3
\* Number of statements of a statement source.
MaxStatements == 3
\* Number of tokens, the end marker apart, of a source of arbitrary tokens.
MaxTokens == 3
\* Number of targets of an assignment source.
MaxTargets == 2

\* The lexeme of each type of token used.
Lexeme ==
    ("Or" :> "or") @@ ("And" :> "and") @@ ("BangEqual" :> "!=") @@
    ("EqualEqual" :> "==") @@ ("Greater" :> ">") @@ ("GreaterEqual" :> ">=") @@
    ("Less" :> "<") @@ ("LessEqual" :> "<=") @@ ("Minus" :> "-") @@
    ("Plus" :> "+") @@ ("Slash" :> "/") @@ ("Star" :> "*") @@
    ("Bang" :> "!") @@ ("Equal" :> "=") @@ ("Semicolon" :> ";") @@
    ("Comma" :> ",") @@ ("Dot" :> ".") @@ ("LeftParen" :> "(") @@
    ("RightParen" :> ")") @@ ("LeftBrace" :> "{") @@ ("RightBrace" :> "}") @@
    ("Fun" :> "fun") @@ ("Var" :> "var") @@ ("For" :> "for") @@
    ("If" :> "if") @@ ("Else" :> "else") @@ ("While" :> "while") @@
    ("Print" :> "print") @@ ("Return" :> "return") @@ ("Class" :> "class") @@
    ("True" :> "true") @@ ("False" :> "false") @@ ("Null" :> "null") @@
    ("Identifier" :> "a") @@ ("Number" :> "1") @@ ("EOF" :> "")

\* The token of a type; a Number is 1 and an Identifier is a.
T(type) ==
    Token_new(type, Lexeme[type], IF type = "Number" THEN Number(1) ELSE None)

\* The Number token of the number n.
Num(n) == Token_new("Number", ToString(n), Number(n))

\* The binary operators, by precedence level from the loosest to the tightest.
OperatorLevels ==
    <<{"Or"}, {"And"}, {"BangEqual", "EqualEqual"},
      {"Greater", "GreaterEqual", "Less", "LessEqual"}, {"Minus", "Plus"},
      {"Slash", "Star"}>>

OperatorTypes == UNION {OperatorLevels[i] : i \in DOMAIN OperatorLevels}

\* 1 <op1> 2 <op2> 3 ... ; for the operator types `operators`.
RECURSIVE ExpressionTokens(_, _)
ExpressionTokens(operators, i) ==
    IF i > Len(operators) THEN <<Num(i), T("Semicolon")>>
    ELSE <<Num(i), T(operators[i])>> \o ExpressionTokens(operators, i + 1)

\* The statements of statement sources:
\* print 1;   var a = 1;   a = 1;   a();   return a;   { print 1; }
SourceStatements ==
    [print |-> <<T("Print"), T("Number"), T("Semicolon")>>,
     var |-> <<T("Var"), T("Identifier"), T("Equal"), T("Number"), T("Semicolon")>>,
     assign |-> <<T("Identifier"), T("Equal"), T("Number"), T("Semicolon")>>,
     call |-> <<T("Identifier"), T("LeftParen"), T("RightParen"), T("Semicolon")>>,
     return |-> <<T("Return"), T("Identifier"), T("Semicolon")>>,
     block |-> <<T("LeftBrace"), T("Print"), T("Number"), T("Semicolon"), T("RightBrace")>>]

\* The statements that end with a semicolon.
Terminated == DOMAIN SourceStatements \ {"block"}

\* The tokens of the statements `names`, the one at index `missing` (0: none)
\* without its final semicolon.
RECURSIVE StatementTokens(_, _, _)
StatementTokens(names, missing, i) ==
    IF i > Len(names) THEN <<>>
    ELSE (IF i = missing
          THEN SubSeq(SourceStatements[names[i]], 1, Len(SourceStatements[names[i]]) - 1)
          ELSE SourceStatements[names[i]])
         \o StatementTokens(names, missing, i + 1)

\* The tokens of the arguments or parameters  1 , 1 , ...  /  a , a , ...
ListTokens(type, length) ==
    [i \in 1..(2 * length - 1) |-> IF i % 2 = 1 THEN T(type) ELSE T("Comma")]

\* The identifier of the target at index i of an assignment source: a, b, ...
Name(i) == Token_new("Identifier", <<"a", "b", "c", "d">>[i], None)

\* The targets of assignment sources, for the identifier x:
\*   x   1   (x)   x + 1   x()
Targets(x) ==
    [variable |-> <<x>>,
     number |-> <<T("Number")>>,
     grouping |-> <<T("LeftParen"), x, T("RightParen")>>,
     binary |-> <<x, T("Plus"), T("Number")>>,
     call |-> <<x, T("LeftParen"), T("RightParen")>>]

TargetKinds == {"variable", "number", "grouping", "binary", "call"}

\* <target1> = <target2> = ... = 1 ;
RECURSIVE AssignmentTokens(_, _)
AssignmentTokens(targets, i) ==
    IF i > Len(targets) THEN <<T("Number"), T("Semicolon")>>
    ELSE Targets(Name(i))[targets[i]] \o <<T("Equal")>> \o AssignmentTokens(targets, i + 1)

\* The token of the identifier i and of the numbers 0 and 3.
I == Token_new("Identifier", "i", None)

\* The clauses and bodies of for sources:
\*   var i = 0;   i = 0;   ;        i < 3        i = i + 1
\*   print i;   { print i; }
ForInitializers ==
    [var |-> <<T("Var"), I, T("Equal"), Num(0), T("Semicolon")>>,
     expression |-> <<I, T("Equal"), Num(0), T("Semicolon")>>,
     none |-> <<T("Semicolon")>>]
ForCondition == <<I, T("Less"), Num(3)>>
ForIncrement == <<I, T("Equal"), I, T("Plus"), Num(1)>>
ForBodies ==
    [print |-> <<T("Print"), I, T("Semicolon")>>,
     block |-> <<T("LeftBrace"), T("Print"), I, T("Semicolon"), T("RightBrace")>>]

\* for ( <initializer> <condition>? ; <increment>? ) <body>
ForTokens(src) ==
    <<T("For"), T("LeftParen")>> \o ForInitializers[src.initializer]
    \o (IF src.condition THEN ForCondition ELSE <<>>) \o <<T("Semicolon")>>
    \o (IF src.increment THEN ForIncrement ELSE <<>>) \o <<T("RightParen")>>
    \o ForBodies[src.body]

\* var i = 0; while (i < 3) { print i; i = i + 1; }
WhileTokens ==
    ForInitializers["var"]
    \o <<T("While"), T("LeftParen")>> \o ForCondition \o <<T("RightParen"), T("LeftBrace")>>
    \o ForBodies["print"] \o ForIncrement \o <<T("Semicolon"), T("RightBrace")>>

\* The types of the tokens of sources of arbitrary tokens.
TokenTypes ==
    {"Fun", "Var", "For", "Print", "Class", "LeftParen", "RightParen", "LeftBrace",
     "RightBrace", "Semicolon", "Equal", "Minus", "Identifier"}

\* The sequences of at most n elements of S.
SeqUpTo(S, n) == UNION {[1..k -> S] : k \in 0..n}

Sources ==
    {[kind |-> "expression", operators |-> operators] :
        operators \in SeqUpTo(OperatorTypes, MaxOperators)}
    \cup {[kind |-> "statements", names |-> names, missing |-> missing] :
            names \in SeqUpTo(DOMAIN SourceStatements, MaxStatements),
            missing \in 0..MaxStatements}
    \cup {[kind |-> "tokens", types |-> types] : types \in SeqUpTo(TokenTypes, MaxTokens)}
    \cup {[kind |-> "call", length |-> length] :
            length \in {1, MaxArguments, MaxArguments + 1}}
    \cup {[kind |-> "function", length |-> length] :
            length \in {1, MaxParameters, MaxParameters + 1}}
    \cup {[kind |-> "assignment", targets |-> targets] :
            targets \in SeqUpTo(TargetKinds, MaxTargets)}
    \cup {[kind |-> "for", initializer |-> initializer, condition |-> condition,
           increment |-> increment, body |-> body] :
            initializer \in DOMAIN ForInitializers, condition \in BOOLEAN,
            increment \in BOOLEAN, body \in DOMAIN ForBodies}
    \cup {[kind |-> "while"]}

\* The token vector of a source, the end marker last.
Tokens(src) ==
    (CASE src.kind = "expression" -> ExpressionTokens(src.operators, 1)
       [] src.kind = "statements" -> StatementTokens(src.names, src.missing, 1)
       [] src.kind = "tokens" -> [i \in DOMAIN src.types |-> T(src.types[i])]
       [] src.kind = "call" ->
            <<T("Identifier"), T("LeftParen")>> \o ListTokens("Number", src.length)
            \o <<T("RightParen"), T("Semicolon")>>
       [] src.kind = "function" ->
            <<T("Fun"), T("Identifier"), T("LeftParen")>>
            \o ListTokens("Identifier", src.length)
            \o <<T("RightParen"), T("LeftBrace"), T("RightBrace")>>
       [] src.kind = "assignment" -> AssignmentTokens(src.targets, 1)
       [] src.kind = "for" -> ForTokens(src)
       [] src.kind = "while" -> WhileTokens)
    \o <<T("EOF")>>

\* main hands the tokens of a source to Parser::new.
Parser_new_source(src) ==
    /\ source.kind = "empty"
    /\ src.kind = "statements"
       => (src.missing <= Len(src.names) /\
           (src.missing # 0 => src.names[src.missing] \in Terminated))
    /\ source' = src
    /\ parser' = Parser_new(Tokens(src))
    /\ program' = <<>>
    /\ UNCHANGED <<statements, envs, environment, globals, had_error, errors, output,
                   dbg, blocks, calls, got, scanner>>

\* parse: `if let Some(stmt) = self.decleration() { statements.push(stmt); }`
parse_push(x) ==
    /\ parser' = x.p
    /\ program' = IF x.r.some THEN Append(program, x.r.v) ELSE program

\* parse: one turn of the loop `while !self.is_at_end()`.
parse ==
    /\ source.kind # "empty"
    /\ ~is_at_end(parser)
    /\ parse_push(decleration(parser))
    /\ UNCHANGED <<source, statements, envs, environment, globals, had_error, errors,
                   output, dbg, blocks, calls, got, scanner>>

\* parse has returned `program`.
parse_returned == source.kind # "empty" /\ is_at_end(parser)

\* The trees of the parser hold tokens; the interpreter reads a token's type
\* (an operator) or lexeme (a name), and its model holds the lexeme alone.
\* Lexemes is a tree of the parser with every token replaced by its lexeme.
RECURSIVE Lexemes(_)
LexemesOfAll(trees) == [i \in DOMAIN trees |-> Lexemes(trees[i])]
Lexemes(tree) ==
    CASE tree.k \in {"None", "Literal"} -> tree
      [] tree.k = "Variable" -> VariableExpr(tree.name.lexeme)
      [] tree.k = "Assign" -> AssignExpr(tree.name.lexeme, Lexemes(tree.value))
      [] tree.k = "Logical" ->
            LogicalExpr(Lexemes(tree.left), tree.operator.lexeme, Lexemes(tree.right))
      [] tree.k = "Binary" ->
            BinaryExpr(Lexemes(tree.left), tree.operator.lexeme, Lexemes(tree.right))
      [] tree.k = "Unary" -> UnaryExpr(tree.operator.lexeme, Lexemes(tree.expr))
      [] tree.k = "Grouping" -> GroupingExpr(Lexemes(tree.expr))
      [] tree.k = "Call" -> CallExpr(Lexemes(tree.callee), LexemesOfAll(tree.arguments))
      [] tree.k = "Expression" -> ExpressionStmt(Lexemes(tree.expr))
      [] tree.k = "Print" -> PrintStmt(Lexemes(tree.expr))
      [] tree.k = "Var" -> VarStmt(tree.name.lexeme, Lexemes(tree.initializer))
      [] tree.k = "Block" -> BlockStmt(LexemesOfAll(tree.statements))
      [] tree.k = "If" ->
            IfStmt(Lexemes(tree.condition), Lexemes(tree.then_branch),
                   Lexemes(tree.else_branch))
      [] tree.k = "While" -> WhileStmt(Lexemes(tree.condition), Lexemes(tree.body))
      [] tree.k = "Function" ->
            FunctionStmt(tree.name.lexeme, [i \in DOMAIN tree.params |-> tree.params[i].lexeme],
                         LexemesOfAll(tree.body))
      [] tree.k = "Return" -> ReturnStmt(Lexemes(tree.value))

\* One iteration of the loop of Interpreter::interpret on the statements parse
\* returned for a loop source.
interpret(now) ==
    /\ parse_returned
    /\ source.kind \in {"for", "while"}
    /\ Len(statements) < Len(program)
    /\ unwrap_or_dbg(Lexemes(program[Len(statements) + 1]),
                     execute(Lexemes(program[Len(statements) + 1]), Start(now)))

\* interpret has returned.
interpret_returned == parse_returned /\ Len(statements) = Len(program)

NextParser ==
    \/ source.kind = "empty" /\ \E src \in Sources : Parser_new_source(src)
    \/ parse
    \/ \E now \in ClockValues : interpret(now)

SpecParser == Init /\ [][NextParser]_vars

(***************************************************************************)
(* Properties of the parser (SpecParser)                                   *)
(***************************************************************************)
\* The precedence level of a binary operator, 1 the loosest.
Level(type) == CHOOSE i \in DOMAIN OperatorLevels : type \in OperatorLevels[i]

IsOperation(expr) == expr.k \in {"Binary", "Logical"}

\* The literals and operator tokens of a tree of operations, in order.
RECURSIVE Flatten(_)
Flatten(expr) ==
    IF IsOperation(expr)
    THEN Flatten(expr.left) \o <<expr.operator>> \o Flatten(expr.right)
    ELSE IF expr.k = "Literal" THEN <<expr.value>>
    ELSE <<expr>>

\* The literals and operator tokens of 1 <op1> 2 <op2> 3 ..., in order.
SourceOrder(operators) ==
    [i \in 1..(2 * Len(operators) + 1) |->
        IF i % 2 = 1 THEN Number((i + 1) \div 2) ELSE T(operators[i \div 2])]

\* The node of an operator token: Logical for or / and, Binary otherwise.
Operation(left, type, right) ==
    IF type \in {"Or", "And"} THEN LogicalExpr(left, T(type), right)
    ELSE BinaryExpr(left, T(type), right)

\* No operation has a looser operation as an operand.
RECURSIVE Precedence(_)
Precedence(expr) ==
    IsOperation(expr)
    => /\ Precedence(expr.left)
       /\ Precedence(expr.right)
       /\ IsOperation(expr.left)
          => Level(expr.left.operator.type) >= Level(expr.operator.type)
       /\ IsOperation(expr.right)
          => Level(expr.right.operator.type) >= Level(expr.operator.type)
       /\ expr.k = "Logical" <=> expr.operator.type \in {"Or", "And"}

\* ((1 <op1> 2) <op2> 3) ... up to the operator at index n.
RECURSIVE LeftNested(_, _)
LeftNested(operators, n) ==
    IF n = 0 THEN LiteralExpr(Number(1))
    ELSE Operation(LeftNested(operators, n - 1), operators[n], LiteralExpr(Number(n + 1)))

\* parse has returned the statements of an expression source.
ParsedExpression == parse_returned /\ source.kind = "expression"

\* C17: a parenthesis-free sequence of literals and binary operators parses
\* to one expression whose operations keep the order of the source and in
\* which no operation has an operation of a looser level as an operand;
\* 1 - 2 * 3 + 4 parses as (1 - (2 * 3)) + 4 and 1 or 2 and 3 as
\* 1 or (2 and 3).
C17_Precedence ==
    ParsedExpression
    => /\ parser.errors = <<>>
       /\ Len(program) = 1
       /\ program[1].k = "Expression"
       /\ Flatten(program[1].expr) = SourceOrder(source.operators)
       /\ Precedence(program[1].expr)
       /\ source.operators = <<"Minus", "Star", "Plus">>
          => program[1].expr =
                BinaryExpr(BinaryExpr(LiteralExpr(Number(1)), T("Minus"),
                                      BinaryExpr(LiteralExpr(Number(2)), T("Star"),
                                                 LiteralExpr(Number(3)))),
                           T("Plus"), LiteralExpr(Number(4)))
       /\ source.operators = <<"Or", "And">>
          => program[1].expr =
                LogicalExpr(LiteralExpr(Number(1)), T("Or"),
                            LogicalExpr(LiteralExpr(Number(2)), T("And"),
                                        LiteralExpr(Number(3))))

\* C17 witness: 1 - 2 * 3 + 4; was parsed to a + whose left operand is a -
\* whose right operand is the *.
C17_Witness ==
    /\ ParsedExpression
    /\ source.operators = <<"Minus", "Star", "Plus">>
    /\ program[1].expr.operator = T("Plus")
    /\ program[1].expr.left.operator = T("Minus")
    /\ program[1].expr.left.right.operator = T("Star")

\* C18: a chain of operators of one precedence level parses to the
\* left-nested tree ((1 op1 2) op2 3) ..., each node with its own operator
\* token; 1 != 2 == 3 parses as (1 != 2) == 3.
C18_LeftAssociative ==
    (/\ ParsedExpression
     /\ \E i \in DOMAIN OperatorLevels :
            \A j \in DOMAIN source.operators : source.operators[j] \in OperatorLevels[i])
    => /\ program = <<ExpressionStmt(LeftNested(source.operators, Len(source.operators)))>>
       /\ source.operators = <<"BangEqual", "EqualEqual">>
          => program[1].expr =
                BinaryExpr(BinaryExpr(LiteralExpr(Number(1)), T("BangEqual"),
                                      LiteralExpr(Number(2))),
                           T("EqualEqual"), LiteralExpr(Number(3)))

\* C18 witness: 1 > 2 < 3 >= 4; was parsed to ((1 > 2) < 3) >= 4.
C18_Witness ==
    /\ ParsedExpression
    /\ source.operators = <<"Greater", "Less", "GreaterEqual">>
    /\ program[1].expr.operator = T("GreaterEqual")
    /\ program[1].expr.left.operator = T("Less")
    /\ program[1].expr.left.left.operator = T("Greater")
    /\ program[1].expr.right = LiteralExpr(Number(4))

\* C19: when one statement of a source lacks its semicolon, parse returns
\* every other statement: as many statements as the source has, less one.
C19_MissingSemicolonRecovery ==
    (parse_returned /\ source.kind = "statements" /\ source.missing # 0)
    => Len(program) = Len(source.names) - 1

\* C20: in every state of the parser, of a well-formed or a malformed source,
\* current is at most the index of the end marker, it never was beyond, and
\* previous() was never evaluated with current at 0; no token was read outside
\* the token vector.
C20_ParserStaysInBounds ==
    LET eof == Len(parser.tokens) - 1
    IN /\ parser.tokens[eof + 1].type = "EOF"
       /\ parser.current \in 0..eof
       /\ parser.currents \subseteq 0..eof
       /\ parser.previous_at \subseteq 1..eof
       /\ \A i \in DOMAIN parser.errors : parser.errors[i].token # OutOfBounds

\* C20 witness: { print was parsed to its end: the error of print at the end
\* marker and the error of the block were reported with current at the end
\* marker.
C20_Witness ==
    /\ parse_returned
    /\ source = [kind |-> "tokens", types |-> <<"LeftBrace", "Print">>]
    /\ Len(parser.errors) = 2
    /\ parser.current = 2
    /\ 2 \in parser.previous_at

\* C21: a call with more than 255 arguments and a function with more than 255
\* parameters are both reported and both still produced as the statement of
\* their declaration.
C21_LimitNonFatal ==
    (/\ parse_returned
     /\ \/ source.kind = "call" /\ source.length > MaxArguments
        \/ source.kind = "function" /\ source.length > MaxParameters)
    => /\ Len(parser.errors) >= 1
       /\ Len(program) = 1
       /\ program[1].k = IF source.kind = "call" THEN "Expression" ELSE "Function"

\* The expression a target of an assignment source parses to, for the
\* identifier x.
TargetExpr(kind, x) ==
    CASE kind = "variable" -> VariableExpr(x)
      [] kind = "number" -> LiteralExpr(Number(1))
      [] kind = "grouping" -> GroupingExpr(VariableExpr(x))
      [] kind = "binary" ->
            BinaryExpr(VariableExpr(x), T("Plus"), LiteralExpr(Number(1)))
      [] kind = "call" ->
            [k |-> "Call", callee |-> VariableExpr(x), paren |-> T("RightParen"),
             arguments |-> <<>>]

\* The expression  <target i> = <target i+1> = ... = 1  is to parse to: an
\* Assign nested to the right under a Variable target; under any other target,
\* that target alone.
RECURSIVE Assigned(_, _)
Assigned(targets, i) ==
    IF i > Len(targets) THEN LiteralExpr(Number(1))
    ELSE IF targets[i] = "variable" THEN AssignExpr(Name(i), Assigned(targets, i + 1))
    ELSE TargetExpr(targets[i], Name(i))

\* C26: t1 = t2 = ... = 1; parses to one expression statement, Assign nodes
\* nested to the right (a = b = 1 is Assign(a, Assign(b, 1))); every target
\* that is not a Variable is reported as 'Invalid assignment target' at an '='
\* token and builds no Assign node, and still the tokens to the end of the
\* statement are consumed and synchronize is never entered.
C26_Assignment ==
    (parse_returned /\ source.kind = "assignment")
    => /\ program = <<ExpressionStmt(Assigned(source.targets, 1))>>
       /\ parser.synchronized = {}
       /\ parser.current = Len(parser.tokens) - 1
       /\ Len(parser.errors) =
            Cardinality({i \in DOMAIN source.targets : source.targets[i] # "variable"})
       /\ \A i \in DOMAIN parser.errors :
            parser.errors[i] = [token |-> T("Equal"), message |-> "Invalid assignment target"]

\* C26 witness: a() = 1 = 1; was parsed to the statement a(); with two reports.
C26_Witness ==
    /\ parse_returned
    /\ source = [kind |-> "assignment", targets |-> <<"call", "number">>]
    /\ Len(parser.errors) = 2
    /\ Len(program) = 1
    /\ program[1].expr.k = "Call"

\* The token with the zero-based index i.
TokenAt(i) == parser.tokens[i + 1]

\* With current = i the parser is at a statement boundary: at the end marker,
\* or past a semicolon, or before a keyword that starts a statement.
Boundary(i) ==
    \/ TokenAt(i).type = "EOF"
    \/ i > 0 /\ TokenAt(i - 1).type = "Semicolon"
    \/ TokenAt(i).type \in {"Class", "Fun", "Var", "For", "If", "While", "Print", "Return"}

\* C27: every call of synchronize that was not entered at the end marker
\* consumed at least one token and returned at the first statement boundary
\* after that token: at the end marker, or past a semicolon, or before one of
\* class fun var for if while print return, and at no later one.
C27_Synchronize ==
    \A x \in parser.synchronized :
        IF TokenAt(x.from).type = "EOF" THEN x.to = x.from
        ELSE /\ x.to > x.from
             /\ Boundary(x.to)
             /\ \A i \in (x.from + 1)..(x.to - 1) : ~Boundary(i)

\* C27 witness: synchronize has discarded two tokens or more and returned
\* before a keyword that no semicolon precedes.
C27_Witness ==
    /\ parse_returned
    /\ \E x \in parser.synchronized :
        /\ x.to >= x.from + 2
        /\ TokenAt(x.to).type \in {"Print", "Var"}
        /\ TokenAt(x.to - 1).type # "Semicolon"

\* The statements the clauses and bodies of for sources parse to.
ForInitializer ==
    [var |-> VarStmt(I, LiteralExpr(Number(0))),
     expression |-> ExpressionStmt(AssignExpr(I, LiteralExpr(Number(0)))),
     none |-> None]
ForBody ==
    [print |-> PrintStmt(VariableExpr(I)),
     block |-> BlockStmt(<<PrintStmt(VariableExpr(I))>>)]
Condition == BinaryExpr(VariableExpr(I), T("Less"), LiteralExpr(Number(3)))
Increment ==
    AssignExpr(I, BinaryExpr(VariableExpr(I), T("Plus"), LiteralExpr(Number(1))))

\* While(condition, or true, body'), body' the block of the body and the
\* increment, or the body.
ForLoop(src) ==
    WhileStmt(IF src.condition THEN Condition ELSE LiteralExpr(Bool(TRUE)),
              IF src.increment
              THEN BlockStmt(<<ForBody[src.body], ExpressionStmt(Increment)>>)
              ELSE ForBody[src.body])

\* C28: a for statement parses, for every combination of clauses, to a Block
\* of the initializer, if any, and the While loop.
C28_ForShape ==
    (parse_returned /\ source.kind = "for")
    => /\ parser.errors = <<>>
       /\ program =
            <<BlockStmt((IF source.initializer # "none"
                         THEN <<ForInitializer[source.initializer]>> ELSE <<>>)
                        \o <<ForLoop(source)>>)>>

\* C30: every decleration call, of the loop of parse and of the loop of
\* block, has left current larger than it was and at most at the end marker,
\* where the loops end; no more statements are returned than turns were taken,
\* and the statements of a fault-free source are returned all and in order.
C30_ParseTerminates ==
    /\ \A x \in parser.declerations : x.from < x.to /\ x.to <= Len(parser.tokens) - 1
    /\ Len(program) <= Cardinality(parser.declerations)
    /\ (parse_returned /\ source.kind = "statements" /\ source.missing = 0)
       => /\ Len(program) = Len(source.names)
          /\ \A i \in DOMAIN program :
                program[i].k =
                    [print |-> "Print", var |-> "Var", assign |-> "Expression",
                     call |-> "Expression", return |-> "Return",
                     block |-> "Block"][source.names[i]]

\* C30 witness: parse has returned after three turns, one of them a block with
\* a decleration call of its own, another one a failed decleration.
C30_Witness ==
    /\ parse_returned
    /\ Cardinality({x \in parser.declerations : x.from \in {0, x.to}}) = 1
    /\ Cardinality(parser.declerations) >= 4
    /\ parser.synchronized # {}
    /\ Len(program) >= 2

\* for (var i = 0; i < 3; i = i + 1) print i;
ForPrint ==
    [kind |-> "for", initializer |-> "var", condition |-> TRUE, increment |-> TRUE,
     body |-> "print"]

\* The two loops: the for statement and its explicit while form.
Loops == {ForPrint, [kind |-> "while"]}

ZeroOneTwo == <<Number(0), Number(1), Number(2)>>

\* The bindings of the global environment on construction of the interpreter.
NativeBindings ==
    ("clock" :> NativeFunction("clock")) @@ ("input" :> NativeFunction("input"))

\* C22 as stated: for (var i = 0; i < 3; i = i + 1) print i; and
\* var i = 0; while (i < 3) { print i; i = i + 1; } print the same, 0 1 2, and
\* leave the same bindings in the enclosing scope, i bound to 3.
C22_ForAsWhile ==
    (interpret_returned /\ source \in Loops)
    => /\ output = ZeroOneTwo
       /\ envs[globals].variables = ("i" :> Number(3)) @@ NativeBindings

\* C22 amended: both loops print 0 1 2 without an error and end with i = 3
\* where var i = 0 bound it: the while form in the enclosing scope, the for
\* statement in the environment of the block it parses to, whose parent is the
\* enclosing scope; the for statement leaves the enclosing scope as it was.
C22_ForAsWhileInBlock ==
    (interpret_returned /\ source \in Loops)
    => /\ output = ZeroOneTwo
       /\ errors = <<>>
       /\ environment = globals
       /\ source.kind = "while"
          => envs[globals].variables = ("i" :> Number(3)) @@ NativeBindings
       /\ source.kind = "for"
          => /\ envs[globals].variables = NativeBindings
             /\ envs[2] = [variables |-> ("i" :> Number(3)), parent |-> globals]

\* C22 witness: the for statement was parsed and interpreted: it printed 0 1 2
\* in three turns of the loop, each in an environment of its own.
C22_Witness ==
    /\ interpret_returned
    /\ source = ForPrint
    /\ output = ZeroOneTwo
    /\ Len(envs) = 5

(***************************************************************************)
(* Properties of the environments                                          *)
(***************************************************************************)
\* C29: the global environment is the one environment without a parent and
\* the globals reference is never reassigned; every environment created by a
\* statement (a block entered, a function called) has for parent an environment
\* created before it, so the parent links lead to the global environment without
\* a cycle; no environment is dropped from the heap and no parent link changes.
C29_ParentChain ==
    [][/\ globals' = globals
       /\ envs'[globals'].parent = 0
       /\ Len(envs') >= Len(envs)
       /\ \A i \in DOMAIN envs : envs'[i].parent = envs[i].parent
       /\ \A i \in DOMAIN envs' \ {globals'} : envs'[i].parent \in 1..(i - 1)
       /\ environment' \in DOMAIN envs'
      ]_vars

\* C29 witness: a block was entered in the body of a function and the function
\* was called again later: the parent of the block's environment is the first
\* call's environment, the parent of the later call's environment is the global
\* one.
C29_Witness ==
    \E i, j \in DOMAIN envs :
        /\ envs[i].parent \notin {0, globals}
        /\ j > i
        /\ envs[j].parent = globals
        /\ \E c \in DOMAIN calls : calls[c].environment = j

(***************************************************************************)
(* The scanner.  A source is a sequence of characters; the scanner holds    *)
(* the source, the tokens made so far, the start of the lexeme being        *)
(* scanned, the cursor and the line.  A panic ends the scan: a scanner that *)
(* panicked takes no further step.                                          *)
(***************************************************************************)
\* Length of a source, in characters.
MaxChars == 3

Chars == {"1", ".", "o", "r", "/", "\n", "\"", "=", " ", "#"}

NoChar == ""

is_ascii_digit(c) == c \in {"0", "1", "2", "3", "4", "5", "6", "7", "8", "9"}

is_alphabetic(c) == c \in {"o", "r"}

is_alphanumeric(c) == is_alphabetic(c) \/ is_ascii_digit(c)

Scanner_new(src) ==
    [source |-> src, tokens |-> <<>>, start |-> 0, current |-> 0, line |-> 1,
     reports |-> <<>>, panicked |-> FALSE, at |-> "scan_tokens"]

\* source.chars().nth(i)
nth(sc, i) == IF i < Len(sc.source) THEN sc.source[i + 1] ELSE NoChar

\* source.substring(from, to)
substring(sc, from, to) == SubSeq(sc.source, from + 1, to)

panic(sc, message) ==
    [sc EXCEPT !.panicked = TRUE,
               !.reports = Append(@, [line |-> sc.line, message |-> message])]

report(sc, line, message) ==
    [sc EXCEPT !.reports = Append(@, [line |-> line, message |-> message])]

Scanner_advance(sc) ==
    IF nth(sc, sc.current) = NoChar
    THEN [sc |-> panic([sc EXCEPT !.current = @ + 1], "tried to advance past end of the file."),
          c |-> NoChar]
    ELSE [sc |-> [sc EXCEPT !.current = @ + 1], c |-> nth(sc, sc.current)]

Scanner_peek(sc) ==
    IF nth(sc, sc.current) = NoChar
    THEN [sc |-> panic(sc, "tried to peek past end of the file."), c |-> NoChar]
    ELSE [sc |-> sc, c |-> nth(sc, sc.current)]

peek_next(sc) ==
    IF nth(sc, sc.current + 1) = NoChar
    THEN [sc |-> panic(sc, "tried to peek next past end of the file."), c |-> NoChar]
    ELSE [sc |-> sc, c |-> nth(sc, sc.current + 1)]

match_next(sc, expected) ==
    IF nth(sc, sc.current) = expected
    THEN [sc |-> [sc EXCEPT !.current = @ + 1], b |-> TRUE]
    ELSE [sc |-> sc, b |-> FALSE]

add_token(sc, type, literal) ==
    [sc EXCEPT !.tokens = Append(@, [type |-> type,
                                     lexeme |-> substring(sc, sc.start, sc.current),
                                     literal |-> literal,
                                     line |-> sc.line])]

Scanner_is_at_end(sc) == sc.current >= Len(sc.source)

\* The loop of string: up to the closing quote or the end of the source.
RECURSIVE string_loop(_)
string_loop(sc) ==
    IF ~Scanner_is_at_end(sc) /\ Scanner_peek(sc).c # "\""
    THEN string_loop(Scanner_advance(
            IF Scanner_peek(sc).c = "\n" THEN [sc EXCEPT !.line = @ + 1] ELSE sc).sc)
    ELSE sc

\* string after its loop; line is the line the string started on.
string_close(sc, line) ==
    IF Scanner_is_at_end(sc) THEN report(sc, line, "Unterminated string.")
    ELSE add_token(Scanner_advance(sc).sc, "STRING",
                   [t |-> "String", s |-> substring(sc, sc.start + 1, sc.current)])

string(sc) == string_close(string_loop(sc), sc.line)

\* `while self.peek().is_ascii_digit() { self.advance(); }`
RECURSIVE digits(_)
digits(sc) ==
    IF Scanner_peek(sc).sc.panicked THEN Scanner_peek(sc).sc
    ELSE IF is_ascii_digit(Scanner_peek(sc).c) THEN digits(Scanner_advance(sc).sc)
    ELSE sc

DigitValue ==
    ("0" :> 0) @@ ("1" :> 1) @@ ("2" :> 2) @@ ("3" :> 3) @@ ("4" :> 4) @@
    ("5" :> 5) @@ ("6" :> 6) @@ ("7" :> 7) @@ ("8" :> 8) @@ ("9" :> 9)

\* The number a sequence of digits denotes.
RECURSIVE Decimal(_)
Decimal(text) ==
    IF text = <<>> THEN 0
    ELSE 10 * Decimal(SubSeq(text, 1, Len(text) - 1)) + DigitValue[text[Len(text)]]

\* The digits of a fraction without its trailing zeros.
RECURSIVE Fraction(_)
Fraction(text) ==
    IF text # <<>> /\ text[Len(text)] = "0" THEN Fraction(SubSeq(text, 1, Len(text) - 1))
    ELSE text

\* str::parse::<f32> of digits with an optional fraction: the whole part and
\* the digits of the fraction.
parse_f32(text) ==
    IF \E i \in DOMAIN text : text[i] = "."
    THEN LET dot == CHOOSE i \in DOMAIN text : text[i] = "."
         IN  [whole |-> Decimal(SubSeq(text, 1, dot - 1)),
              fraction |-> Fraction(SubSeq(text, dot + 1, Len(text)))]
    ELSE [whole |-> Decimal(text), fraction |-> <<>>]

\* The end of number: the lexeme is parsed and the token added.
number_value(sc) ==
    IF sc.panicked THEN sc
    ELSE add_token(sc, "NUMBER",
                   [t |-> "Float", value |-> parse_f32(substring(sc, sc.start, sc.current))])

\* number after its first loop: the fraction.
number_fraction(sc) ==
    IF sc.panicked THEN sc
    ELSE IF Scanner_peek(sc).c # "." THEN number_value(sc)
    ELSE IF peek_next(sc).sc.panicked THEN peek_next(sc).sc
    ELSE IF is_ascii_digit(peek_next(sc).c) THEN number_value(digits(Scanner_advance(sc).sc))
    ELSE number_value(report(sc, sc.line, "Unterminated number."))

number(sc) == number_fraction(digits(sc))

\* `while self.peek().is_alphanumeric() { self.advance(); }`
RECURSIVE identifier_loop(_)
identifier_loop(sc) ==
    IF Scanner_peek(sc).sc.panicked THEN Scanner_peek(sc).sc
    ELSE IF is_alphanumeric(Scanner_peek(sc).c) THEN identifier_loop(Scanner_advance(sc).sc)
    ELSE sc

Keywords ==
    (<<"a", "n", "d">> :> "AND") @@ (<<"c", "l", "a", "s", "s">> :> "CLASS") @@
    (<<"e", "l", "s", "e">> :> "ELSE") @@ (<<"f", "a", "l", "s", "e">> :> "FALSE") @@
    (<<"f", "o", "r">> :> "FOR") @@ (<<"f", "u", "n">> :> "FUN") @@
    (<<"i", "f">> :> "IF") @@ (<<"n", "i", "l">> :> "NIL") @@ (<<"o", "r">> :> "OR") @@
    (<<"p", "r", "i", "n", "t">> :> "PRINT") @@
    (<<"r", "e", "t", "u", "r", "n">> :> "RETURN") @@
    (<<"s", "u", "p", "e", "r">> :> "SUPER") @@ (<<"t", "h", "i", "s">> :> "THIS") @@
    (<<"t", "r", "u", "e">> :> "TRUE") @@ (<<"v", "a", "r">> :> "VAR") @@
    (<<"w", "h", "i", "l", "e">> :> "WHILE")

\* The end of identifier: a keyword's type or IDENTIFIER.
identifier_type(sc) ==
    IF sc.panicked THEN sc
    ELSE IF substring(sc, sc.start, sc.current) \in DOMAIN Keywords
    THEN add_token(sc, Keywords[substring(sc, sc.start, sc.current)], None)
    ELSE add_token(sc, "IDENTIFIER", None)

identifier(sc) == identifier_type(identifier_loop(sc))

\* `while self.peek() != '\n' && !self.is_at_end() { self.advance(); }`
RECURSIVE comment_loop(_)
comment_loop(sc) ==
    IF Scanner_peek(sc).sc.panicked THEN Scanner_peek(sc).sc
    ELSE IF Scanner_peek(sc).c # "\n" /\ ~Scanner_is_at_end(sc)
    THEN comment_loop(Scanner_advance(sc).sc)
    ELSE sc

OneCharacter ==
    ("(" :> "LEFT_PAREN") @@ (")" :> "RIGHT_PAREN") @@ ("{" :> "LEFT_BRACE") @@
    ("}" :> "RIGHT_BRACE") @@ ("," :> "COMMA") @@ ("." :> "DOT") @@ ("-" :> "MINUS") @@
    ("+" :> "PLUS") @@ (";" :> "SEMICOLON") @@ ("*" :> "STAR")

TwoCharacters ==
    ("!" :> <<"BANG_EQUAL", "BANG">>) @@ ("=" :> <<"EQUAL_EQUAL", "EQUAL">>) @@
    ("<" :> <<"LESS_EQUAL", "LESS">>) @@ (">" :> <<"GREATER_EQUAL", "GREATER">>)

\* scan_token after its advance: the match on the character.
scan_token_match(sc, c) ==
    IF sc.panicked THEN sc
    ELSE IF c \in DOMAIN OneCharacter THEN add_token(sc, OneCharacter[c], None)
    ELSE IF c \in DOMAIN TwoCharacters
    THEN add_token(match_next(sc, "=").sc,
                   TwoCharacters[c][IF match_next(sc, "=").b THEN 1 ELSE 2], None)
    ELSE IF c = "/"
    THEN IF match_next(sc, "/").b THEN comment_loop(match_next(sc, "/").sc)
         ELSE add_token(sc, "SLASH", None)
    ELSE IF c \in {" ", "\r", "\t"} THEN sc
    ELSE IF c = "\n" THEN [sc EXCEPT !.line = @ + 1]
    ELSE IF c = "\"" THEN string(sc)
    ELSE IF is_ascii_digit(c) THEN number(sc)
    ELSE IF is_alphabetic(c) \/ c = "_" THEN identifier(sc)
    ELSE report(sc, sc.line, "Unexpected character")

scan_token(sc) == scan_token_match(Scanner_advance(sc).sc, Scanner_advance(sc).c)

\* Scanner::new on a source text.
Scanner_new_source(src) ==
    /\ scanner.at = "main"
    /\ scanner' = Scanner_new(src)
    /\ UNCHANGED <<statements, envs, environment, globals, had_error, errors, output, dbg,
                   blocks, calls, source, parser, program, got>>

\* One turn of the loop of scan_tokens.
scan_tokens_turn ==
    /\ scanner.at = "scan_tokens"
    /\ ~scanner.panicked
    /\ ~Scanner_is_at_end(scanner)
    /\ scanner' = scan_token([scanner EXCEPT !.start = scanner.current])
    /\ UNCHANGED <<statements, envs, environment, globals, had_error, errors, output, dbg,
                   blocks, calls, source, parser, program, got>>

\* The end of scan_tokens: the end marker is pushed.
scan_tokens_return ==
    /\ scanner.at = "scan_tokens"
    /\ ~scanner.panicked
    /\ Scanner_is_at_end(scanner)
    /\ scanner' = [scanner EXCEPT
                     !.tokens = Append(@, [type |-> "EOF", lexeme |-> <<>>,
                                           literal |-> None, line |-> scanner.line]),
                     !.at = "returned"]
    /\ UNCHANGED <<statements, envs, environment, globals, had_error, errors, output, dbg,
                   blocks, calls, source, parser, program, got>>

NextScanner ==
    \/ \E src \in SeqUpTo(Chars, MaxChars) : Scanner_new_source(src)
    \/ scan_tokens_turn
    \/ scan_tokens_return

SpecScanner == Init /\ [][NextScanner]_vars

\* The environments from id outwards, along the parent links.
RECURSIVE Chain(_, _)
Chain(heap, id) == IF id = 0 THEN <<>> ELSE <<id>> \o Chain(heap, heap[id].parent)

\* The environments of a chain that bind name, innermost first.
Binders(heap, id, name) ==
    SelectSeq(Chain(heap, id), LAMBDA i : name \in DOMAIN heap[i].variables)

\* C23: define binds the name to the value in the environment's own map,
\* bound before or not, and changes no other binding, no parent link and no
\* other environment; a read of the name in that environment then yields the
\* value defined last.
C23_Define ==
    [][\A id \in DOMAIN envs, name \in Names, v \in Values :
        define_in(id, name, v)
        => /\ DOMAIN envs'[id].variables = DOMAIN envs[id].variables \cup {name}
           /\ envs'[id].variables[name] = v
           /\ \A other \in DOMAIN envs[id].variables \ {name} :
                envs'[id].variables[other] = envs[id].variables[other]
           /\ envs'[id].parent = envs[id].parent
           /\ Len(envs') = Len(envs)
           /\ \A j \in DOMAIN envs \ {id} : envs'[j] = envs[j]
           /\ visit_variable_expr(VariableExpr(name),
                                  [Start(5) EXCEPT !.envs = envs', !.environment = id]).v = v
      ]_vars

\* C23 witness: a was defined twice in an environment that binds b as well,
\* and the later value is the one read.
C23_Witness ==
    \E id \in DOMAIN envs :
        /\ id # globals
        /\ DOMAIN envs[id].variables = {"a", "b"}
        /\ envs[id].variables["a"] = Number(2)
        /\ envs[envs[id].parent].variables = ("a" :> Number(1)) @@ NativeBindings
        /\ got = Number(2)

C25_ScanTokens ==
    /\ ~scanner.panicked
    /\ scanner.at = "returned"
       => /\ scanner.tokens # <<>>
          /\ \A i \in DOMAIN scanner.tokens :
                (scanner.tokens[i].type = "EOF") = (i = Len(scanner.tokens))

====
